---- MODULE Spec2Model ----
(***************************************************************************)
(* Octopus Gap Filler: the reconciliation pipeline of App.Run and the      *)
(* source reconcilers it calls, the tariff resolver findRateForTime and    *)
(* the CSV writer.                                                         *)
(*                                                                         *)
(* Time.  An instant is an integer count of 5-minute ticks, so a half hour *)
(* is 6 ticks and time.Truncate(30*time.Minute) is t - (t % 6).  Outside    *)
(* the section on the keys of the store, all instants carry the same       *)
(* time.Location (the tests build the window with time.Local), so an       *)
(* instant is its own map key; that section keeps the Location of a key.   *)
(*                                                                         *)
(* Optional values.  A Go pointer field (to float64, int64, time.Time) is   *)
(* the empty sequence None when nil and the one-element sequence Some(v)   *)
(* when set.                                                               *)
(*                                                                         *)
(* Numbers.  float64 quantities are fixed-point integers: a tariff rate is *)
(* in tenths of a penny, a cumulative counter in units of 1/ValueUnit kWh. *)
(***************************************************************************)
EXTENDS Integers, Sequences, FiniteSets, TLC

VARIABLES
    qt,             \* findRateForTime: the instant t asked about
    intervals,      \* findRateForTime: the tariff intervals, in input order
    rate,           \* findRateForTime: the float64 it returned
    ratePc,         \* "call" before the call, "done" after it
    start,          \* the window: app.CollectionStart
    end,            \* the window: app.Config.EndTime
    zone,           \* the time.Location that app.CollectionStart carries
    usage,          \* the shared store: map[time.Time]*UsageRow (givData in Run)
    pc,             \* where Run, or the reconciler called alone, stands
    readings,       \* PopulateGeoData: the payload GetSystemReadings returned
    data,           \* FetchHalfHourlyInverterData: its local collection of samples
    day,            \* FetchHalfHourlyInverterData: the day being fetched
    page,           \* FetchHalfHourlyInverterData: the page asked for next
    lastPage,       \* the inverter API: meta.last_page of the day being fetched
    delivered,      \* history: the set of samples the inverter API has delivered
    outOfOrder,     \* history: a sample arrived below the maximum already recorded
    duplicated,     \* history: a sample arrived a second time
    calls,          \* history: the requests issued so far, in order, each with
                    \* whether its response announced a further page
    importTariffs,  \* Run: the intervals FetchTariffs returned for the import meter
    exportTariffs,  \* Run: the intervals FetchTariffs returned for the export meter
    csv,            \* writeCSV: the rows written to the output file
    file,           \* writeCSV: the output file, None while it does not exist
    energy,         \* computeCost: its energy operand, a pointer to float64
    price,          \* computeCost: its price operand, a pointer to float64
    costText,       \* computeCost: the text it returned
    evals,          \* computeCost: how many times it has been evaluated
    feed,           \* history: the pages the inverter API served to the first call
    snapshots       \* history: the store as it was when the first call was
                    \* entered and when it returned

rateVars == <<qt, intervals, rate, ratePc>>

geoVars == <<readings>>

givVars == <<data, day, page, lastPage, delivered, outOfOrder, duplicated>>

runVars == <<importTariffs, exportTariffs, csv, file>>

costVars == <<energy, price, costText, evals>>

twiceVars == <<feed, snapshots>>

vars == <<rateVars, costVars, twiceVars, start, end, zone, usage, pc, geoVars, givVars, calls, runVars>>

----------------------------------------------------------------------------
(* Optional values *)

None == <<>>

Some(v) == <<v>>

IsSet(o) == o # None

Val(o) == o[1]

Opt(S) == {None} \cup {Some(v) : v \in S}

----------------------------------------------------------------------------
(* Bounds of the tariff resolver's inputs *)

MaxIntervals == 2

MaxT == 2

\* 0, 7.5 and 10.5 pence, in tenths of a penny
Rates == {0, 75, 105}

TariffInstants == 1..MaxT

QueryInstants == 0..(MaxT + 1)

TariffData == [Rate : Rates, ValidFrom : Opt(TariffInstants), ValidTo : Opt(TariffInstants)]

RECURSIVE SeqsUpTo(_, _)
SeqsUpTo(S, n) ==
    IF n = 0 THEN {<<>>}
    ELSE LET shorter == SeqsUpTo(S, n - 1)
         IN  shorter \cup {Append(s, x) : s \in {q \in shorter : Len(q) = n - 1}, x \in S}

----------------------------------------------------------------------------
(* findRateForTime *)

\* t.Before(u)
Before(t, u) == t < u

\* t.After(u)
After(t, u) == t > u

\* mutant: the range is closed on the right (t <= ValidTo)
ivMatches_ClosedRight(t, iv) ==
    /\ (iv.ValidFrom = None \/ ~Before(t, Val(iv.ValidFrom)))
    /\ (iv.ValidTo = None \/ ~After(t, Val(iv.ValidTo)))

\* startBefore && endAfter of one loop iteration
ivMatches(t, iv) ==
    LET startBefore == iv.ValidFrom = None \/ ~Before(t, Val(iv.ValidFrom))
        endAfter    == iv.ValidTo = None \/ Before(t, Val(iv.ValidTo))
    IN  startBefore /\ endAfter

RECURSIVE findRateFrom(_, _, _)
findRateFrom(t, ivs, i) ==
    IF i > Len(ivs) THEN 0
    ELSE IF ivMatches(t, ivs[i]) THEN ivs[i].Rate
    ELSE findRateFrom(t, ivs, i + 1)

RECURSIVE findRateBackFrom(_, _, _)
findRateBackFrom(t, ivs, i) ==
    IF i < 1 THEN 0
    ELSE IF ivMatches(t, ivs[i]) THEN ivs[i].Rate
    ELSE findRateBackFrom(t, ivs, i - 1)

\* mutant: the loop runs from the last interval to the first
findRateForTime_LastMatch(t, ivs) == findRateBackFrom(t, ivs, Len(ivs))

\* for _, iv := range intervals { if startBefore && endAfter { return iv.Rate } }; return 0.0
findRateForTime(t, ivs) == findRateFrom(t, ivs, 1)

\* the resolver is not under study
RateIdle ==
    /\ qt = 0
    /\ intervals = <<>>
    /\ rate = 0
    /\ ratePc = "idle"

CallFindRateForTime ==
    /\ ratePc = "call"
    /\ rate' = findRateForTime(qt, intervals)
    /\ ratePc' = "done"
    /\ UNCHANGED <<qt, intervals, costVars, twiceVars, start, end, zone, usage, pc, geoVars, givVars, calls, runVars>>

----------------------------------------------------------------------------
(* float64 arithmetic, exactly.  A finite float64 is sign, 53 bits of        *)
(* mantissa and an exponent: the value is m * 2^e.  The mantissa is a        *)
(* sequence of bits, most significant first, because it exceeds the range of *)
(* the integers at hand; zero has the empty mantissa.                        *)

\* the bits of the natural number n
bitsOf(n) ==
    LET w == CHOOSE x \in 0..30 : n < 2^x /\ (x = 0 \/ n >= 2^(x - 1))
    IN  [j \in 1..w |-> (n \div 2^(w - j)) % 2]

\* the natural number of the bits b
RECURSIVE natOf(_)
natOf(b) == IF b = <<>> THEN 0 ELSE 2 * natOf(SubSeq(b, 1, Len(b) - 1)) + b[Len(b)]

zeroBits(n) == [i \in 1..n |-> 0]

RECURSIVE stripZeros(_)
stripZeros(b) == IF b # <<>> /\ b[1] = 0 THEN stripZeros(Tail(b)) ELSE b

\* b + 1
RECURSIVE incBits(_)
incBits(b) ==
    IF b = <<>> THEN <<1>>
    ELSE IF b[Len(b)] = 0 THEN [b EXCEPT ![Len(b)] = 1]
    ELSE Append(incBits(SubSeq(b, 1, Len(b) - 1)), 0)

\* long arithmetic works on digits of DigitBits bits
DigitBits == 10

\* the digits of the bits b, most significant first
digitsOf(b) ==
    LET n      == (Len(b) + DigitBits - 1) \div DigitBits
        padded == zeroBits(n * DigitBits - Len(b)) \o b
    IN  [i \in 1..n |-> natOf(SubSeq(padded, DigitBits * (i - 1) + 1, DigitBits * i))]

\* the bits of the digits ds
bitsOfDigits(ds) ==
    stripZeros([j \in 1..(DigitBits * Len(ds)) |->
                   (ds[(j - 1) \div DigitBits + 1] \div 2^(DigitBits - 1 - ((j - 1) % DigitBits))) % 2])

\* the digits ds divided by the small number d, from digit i on
RECURSIVE divFrom(_, _, _, _, _)
divFrom(ds, d, i, rem, q) ==
    IF i > Len(ds) THEN [q |-> bitsOfDigits(q), r |-> rem]
    ELSE LET cur == 2^DigitBits * rem + ds[i]
         IN  divFrom(ds, d, i + 1, cur % d, Append(q, cur \div d))

\* the digits ds times the small number c, from digit i down
RECURSIVE mulFrom(_, _, _, _, _)
mulFrom(ds, c, i, carry, out) ==
    IF i < 1 THEN bitsOfDigits(digitsOf(bitsOf(carry)) \o out)
    ELSE LET sum == ds[i] * c + carry
         IN  mulFrom(ds, c, i - 1, sum \div 2^DigitBits, <<sum % 2^DigitBits>> \o out)

\* the bits b times the small number c
mulBits(b, c) == LET ds == digitsOf(b) IN mulFrom(ds, c, Len(ds), 0, <<>>)

\* the width of the mantissa of a float64
MantissaBits == 53

\* the guard bits a quotient is computed with before it is rounded
GuardBits == 70

FloatZero == [neg |-> FALSE, m |-> <<>>, e |-> 0, dir |-> 0]

\* the float64 nearest to b * 2^e (plus a fraction of its last bit when
\* sticky), ties to even; dir tells whether the magnitude was rounded up (1),
\* down (-1) or not at all (0)
roundFloat(neg, b, e, sticky) ==
    IF b = <<>> THEN FloatZero
    ELSE IF Len(b) <= MantissaBits
    THEN [neg |-> neg, m |-> b \o zeroBits(MantissaBits - Len(b)),
          e |-> e - (MantissaBits - Len(b)), dir |-> IF sticky THEN -1 ELSE 0]
    ELSE LET keep  == SubSeq(b, 1, MantissaBits)
             half  == b[MantissaBits + 1] = 1
             rest  == sticky \/ \E i \in (MantissaBits + 2)..Len(b) : b[i] = 1
             up    == half /\ (rest \/ keep[MantissaBits] = 1)
             inc   == incBits(keep)
             carry == up /\ Len(inc) > MantissaBits
         IN  [neg |-> neg,
              m   |-> IF ~up THEN keep ELSE SubSeq(inc, 1, MantissaBits),
              e   |-> e + (Len(b) - MantissaBits) + (IF carry THEN 1 ELSE 0),
              dir |-> IF up THEN 1 ELSE IF half \/ rest THEN -1 ELSE 0]

Abs(n) == IF n < 0 THEN -n ELSE n

\* float64(n) / d for an integer n and a small power of ten d: the float64
\* nearest to n/d.  It is also what a decimal literal n/d is parsed to.
fdiv(n, d) ==
    LET quot == divFrom(digitsOf(bitsOf(Abs(n)) \o zeroBits(GuardBits)), d, 1, 0, <<>>)
    IN  roundFloat(n < 0, quot.q, -GuardBits, quot.r # 0)

\* the float64 value of x, without the note of how it was rounded
Float(x) == [neg |-> x.neg, m |-> x.m, e |-> x.e]

\* x * c for a float64 x and a small integer c
fmul(x, c) ==
    IF x.m = <<>> THEN Float(FloatZero)
    ELSE Float(roundFloat(x.neg, mulBits(x.m, c), x.e, FALSE))

\* int64(x): the fraction is discarded
int64Of(x) ==
    LET whole == MantissaBits + x.e
        mag   == IF x.m = <<>> \/ whole <= 0 THEN 0
                 ELSE IF x.e <= 0 THEN natOf(SubSeq(x.m, 1, whole))
                 ELSE natOf(x.m \o zeroBits(x.e))
    IN  IF x.neg THEN -mag ELSE mag

\* a / b of two int64: the quotient is truncated toward zero
quoTrunc(a, b) ==
    IF (a < 0) = (b < 0) THEN Abs(a) \div Abs(b) ELSE -(Abs(a) \div Abs(b))

----------------------------------------------------------------------------
(* computeCost *)

\* the scale of the integer arithmetic
CostScale == 10000

\* the divisor of convertInt64 in writeCSV: Wh to kWh
WhPerKWh == 1000

\* the text "NaN"
NaNText == [text |-> "NaN", neg |-> FALSE, hundredths |-> 0]

\* the text of a number with two decimals: its sign and its hundredths
NumberText(neg, h) == [text |-> "%.2f", neg |-> neg, hundredths |-> h]

\* if val != nil { newVal := float64(*val) / divisor; return &newVal }; return nil
convertInt64(val, divisor) ==
    IF val # None THEN Some(Float(fdiv(Val(val), divisor))) ELSE None

\* fmt.Sprintf("%.2f", float64(n)/10000): the decimal expansion of the
\* quotient, rounded to two decimals on its exact value, ties to even.  The
\* quotient differs from n/10000 by less than any decimal of n, so the
\* rounding of the division decides only the ties of n/10000 itself.
sprintf2(n) ==
    LET a    == Abs(n)
        q    == a \div 100
        r    == a % 100
        dir  == fdiv(a, CostScale).dir
        h    == IF r < 50 THEN q
                ELSE IF r > 50 THEN q + 1
                ELSE IF dir > 0 THEN q + 1
                ELSE IF dir < 0 THEN q
                ELSE IF q % 2 = 0 THEN q ELSE q + 1
    IN  NumberText(n < 0, h)

\* energyInt := int64(*energy * (10000))
scaled(x) == int64Of(fmul(x, CostScale))

\* costInt := (energyInt * priceInt) / 10000
costInt(e, p) == quoTrunc(scaled(e) * scaled(p), CostScale)

\* mutant: a nil operand counts as zero
computeCost_NilIsZero(e, p) ==
    sprintf2(costInt(IF e # None THEN Val(e) ELSE Float(FloatZero),
                     IF p # None THEN Val(p) ELSE Float(FloatZero)))

\* if energy != nil && price != nil { ...; return fmt.Sprintf("%.2f", float64(costInt)/10000) }; return "NaN"
computeCost(e, p) ==
    IF e # None /\ p # None THEN sprintf2(costInt(Val(e), Val(p))) ELSE NaNText

\* computeCost is not under study
CostIdle ==
    /\ energy = None
    /\ price = None
    /\ costText = NaNText
    /\ evals = 0

\* how many times the cost of one pair of operands is evaluated
MaxEvals == 3

\* the energies of the rows, in ten-thousandths of a kWh: a negative delta,
\* zero, and amounts from 0.0003 to 1 kWh
EnergyDecimals == {-3, 0, 3, 1250, 5000, 10000}

\* the epoch totals of the rows, in Wh, which writeCSV converts to kWh
EnergyWh == {51, 1470}

\* the unit rates, in ten-thousandths of a penny: none, 0.005p, 7.5p and 10.5p
PriceDecimals == {0, 50, 75000, 105000}

EnergyOperands ==
    {None} \cup {Some(Float(fdiv(k, CostScale))) : k \in EnergyDecimals}
           \cup {convertInt64(Some(w), WhPerKWh) : w \in EnergyWh}

PriceOperands == {None} \cup {Some(Float(fdiv(k, CostScale))) : k \in PriceDecimals}

\* one evaluation of computeCost on the operands
CallComputeCost ==
    /\ evals < MaxEvals
    /\ costText' = computeCost(energy, price)
    /\ evals' = evals + 1
    /\ UNCHANGED <<rateVars, energy, price, twiceVars, start, end, zone, usage, pc, geoVars, givVars, calls, runVars>>

----------------------------------------------------------------------------
(* Time buckets and the shared store *)

\* 30 * time.Minute, in ticks
HalfHour == 6

\* t.Truncate(30 * time.Minute)
Trunc30(t) == t - (t % HalfHour)

\* the first half-hour boundary of the windows under study (01:00)
WindowBase == 2 * HalfHour

\* &UsageRow{Timestamp: ts}: every pointer field nil
UsageRow(ts) ==
    [Timestamp                   |-> ts,
     CumulativeImportInverter    |-> None,
     CumulativeExportInverter    |-> None,
     GE_ImportKWh                |-> None,
     GE_ExportKWh                |-> None,
     GEO_ImportWh                |-> None,
     GEO_ImportGasWh             |-> None,
     GEO_ImportMilliPenceCost    |-> None,
     GEO_ImportGasMilliPenceCost |-> None,
     OCTO_ImportKWh              |-> None,
     OCTO_ExportKWh              |-> None,
     ImportPrice                 |-> None,
     ExportPrice                 |-> None]

\* make(map[time.Time]...)
EmptyMap == <<>>

\* _, exists := m[k]
Has(m, k) == k \in DOMAIN m

\* m[k] = v
Put(m, k, v) == [x \in (DOMAIN m) \cup {k} |-> IF x = k THEN v ELSE m[x]]

\* row, exists := usage[k]; if !exists { row = &UsageRow{Timestamp: k} }
RowAt(u, k) == IF Has(u, k) THEN u[k] ELSE UsageRow(k)

\* the fields of a row that hold a value of a source
AllFields ==
    {"CumulativeImportInverter", "CumulativeExportInverter", "GE_ImportKWh", "GE_ExportKWh",
     "GEO_ImportWh", "GEO_ImportGasWh", "GEO_ImportMilliPenceCost", "GEO_ImportGasMilliPenceCost",
     "OCTO_ImportKWh", "OCTO_ExportKWh", "ImportPrice", "ExportPrice"}

\* the fields in which the store after differs from the store before, a
\* field of a missing row counting as nil
Changed(before, after) ==
    {f \in AllFields :
        \E k \in (DOMAIN before) \cup (DOMAIN after) : RowAt(before, k)[f] # RowAt(after, k)[f]}

\* a step of a source: a request, or the last step of Run; more: its response
\* announced a further page; wrote: the fields of the store the step changed
Call(src, more, before, after) ==
    [src |-> src, more |-> more, wrote |-> Changed(before, after), failed |-> FALSE]

\* a request of a source that returned an error: nothing of its response is handled
FailedCall(src) == [src |-> src, more |-> FALSE, wrote |-> {}, failed |-> TRUE]

\* Run has fetched no tariffs and written no file; no call has been repeated
RunIdle ==
    /\ feed = <<>>
    /\ snapshots = <<>>
    /\ calls = <<>>
    /\ importTariffs = <<>>
    /\ exportTariffs = <<>>
    /\ csv = <<>>
    /\ file = None

\* FetchHalfHourlyInverterData has not been entered
GivIdle ==
    /\ data = EmptyMap
    /\ day = 0
    /\ page = 1
    /\ lastPage = 1
    /\ delivered = {}
    /\ outOfOrder = FALSE
    /\ duplicated = FALSE

----------------------------------------------------------------------------
(* GeoTogetherService.PopulateGeoData, keyed by group start *)

\* offset += 15 (minutes), in ticks
GeoStep == 3

\* m[k] += v on a map of int64
MapAdd(m, k, v) == Put(m, k, (IF Has(m, k) THEN m[k] ELSE 0) + v)

GeoReadingMaps ==
    [energyReadings |-> EmptyMap, gasReadings |-> EmptyMap,
     costReadings |-> EmptyMap, gasCostReadings |-> EmptyMap]

\* switch reading.EnergyType
storeReading(acc, timestamp, reading) ==
    IF reading.EnergyType = "IMPORT" THEN
        [acc EXCEPT !.energyReadings = MapAdd(@, timestamp, reading.EnergyWattHours),
                    !.costReadings   = MapAdd(@, timestamp, reading.MilliPenceCost)]
    ELSE IF reading.EnergyType = "GAS_ENERGY" THEN
        [acc EXCEPT !.gasReadings     = MapAdd(@, timestamp, reading.EnergyWattHours),
                    !.gasCostReadings = MapAdd(@, timestamp, reading.MilliPenceCost)]
    ELSE acc

RECURSIVE storeGroup(_, _, _, _)
storeGroup(acc, timestamp, rs, j) ==
    IF j > Len(rs) THEN acc
    ELSE storeGroup(storeReading(acc, timestamp, rs[j]), timestamp, rs, j + 1)

\* for _, readingGroup := range readings { ... }
RECURSIVE storeReadings(_, _, _)
storeReadings(acc, groups, i) ==
    IF i > Len(groups) THEN acc
    ELSE storeReadings(storeGroup(acc, groups[i].StartTimestamp, groups[i].Readings, 1),
                       groups, i + 1)

\* for offset := 0; offset < 30; offset += 15 { if value, exists := m[ts]; exists { sum += value } }
RECURSIVE sumSlots(_, _, _)
sumSlots(m, t, offset) ==
    IF offset >= HalfHour THEN 0
    ELSE (IF Has(m, t + offset) THEN m[t + offset] ELSE 0) + sumSlots(m, t, offset + GeoStep)

\* for t := startDate.Truncate(30 * time.Minute); t.Before(endDate); t = t.Add(30 * time.Minute)
RECURSIVE geoBuckets(_, _, _, _)
geoBuckets(u, acc, t, endDate) ==
    IF ~Before(t, endDate) THEN u
    ELSE LET sumEnergy  == sumSlots(acc.energyReadings, t, 0)
             sumGas     == sumSlots(acc.gasReadings, t, 0)
             sumCost    == sumSlots(acc.costReadings, t, 0)
             sumGasCost == sumSlots(acc.gasCostReadings, t, 0)
             row        == [RowAt(u, t) EXCEPT
                               !.GEO_ImportWh                = Some(sumEnergy),
                               !.GEO_ImportGasWh             = Some(sumGas),
                               !.GEO_ImportMilliPenceCost    = Some(sumCost),
                               !.GEO_ImportGasMilliPenceCost = Some(sumGasCost)]
         IN  IF sumEnergy = 0 /\ sumGas = 0
             THEN geoBuckets(u, acc, t + HalfHour, endDate)
             ELSE geoBuckets(Put(u, t, row), acc, t + HalfHour, endDate)

PopulateGeoData(u, groups, startDate, endDate) ==
    geoBuckets(u, storeReadings(GeoReadingMaps, groups, 1), Trunc30(startDate), endDate)

\* bounds of the epoch feed
MaxGroups == 3

GeoBuckets == 2

Reading(type, wh, cost) ==
    [EnergyType |-> type, EnergyWattHours |-> wh, MilliPenceCost |-> cost]

\* the three groups of TestPopulateGeoData, a group of zero consumption, a
\* group of zero energy that carries a cost
GeoReadingLists ==
    { <<Reading("IMPORT", 1470, 34559), Reading("GAS_ENERGY", 500, 12000)>>,
      <<Reading("IMPORT", 1541, 36228), Reading("GAS_ENERGY", 600, 15000)>>,
      <<Reading("IMPORT", 1358, 31926), Reading("GAS_ENERGY", 700, 18000)>>,
      <<Reading("IMPORT", 0, 0), Reading("GAS_ENERGY", 0, 0)>>,
      <<Reading("IMPORT", 0, 7)>> }

\* quarter-hour group starts of the first hour, and one start on the 5-minute grid
GeoStamps == {WindowBase + k * GeoStep : k \in 0..(2 * GeoBuckets - 1)} \cup {WindowBase + 1}

GeoGroups == [StartTimestamp : GeoStamps, Readings : GeoReadingLists]

GeoFeeds == SeqsUpTo(GeoGroups, MaxGroups)

\* the reconciler called alone on a window of GeoBuckets half hours, aligned
\* or starting 5 minutes past the boundary, on an empty store or on one that
\* already holds a row of another source
GeoInit ==
    /\ RateIdle
    /\ CostIdle
    /\ start \in {WindowBase, WindowBase + 1}
    /\ end = start + GeoBuckets * HalfHour
    /\ zone = "Local"
    /\ usage \in {EmptyMap,
                  Put(EmptyMap, WindowBase, [UsageRow(WindowBase) EXCEPT !.OCTO_ImportKWh = Some(1)])}
    /\ pc = "geo"
    /\ readings = <<>>
    /\ GivIdle
    /\ RunIdle

\* err = app.GeoService.PopulateGeoData(givData, app.CollectionStart, app.Config.EndTime.UTC())
CallPopulateGeoData(feeds, after) ==
    /\ pc = "geo"
    /\ \E groups \in feeds :
          /\ readings' = groups
          /\ usage' = PopulateGeoData(usage, groups, start, end)
    /\ pc' = after
    /\ calls' = Append(calls, Call("geo", FALSE, usage, usage'))
    /\ UNCHANGED <<rateVars, costVars, twiceVars, start, end, zone, givVars, runVars>>

\* GetUserSystemID or GetSystemReadings returned an error
GeoFails ==
    /\ pc = "geo"
    /\ pc' = "error"
    /\ calls' = Append(calls, FailedCall("geo"))
    /\ UNCHANGED <<rateVars, costVars, twiceVars, start, end, zone, usage, geoVars, givVars, runVars>>

GeoNext ==
    \/ CallPopulateGeoData(GeoFeeds, "done")
    \/ GeoFails

----------------------------------------------------------------------------
(* GivEnergyService.FetchHalfHourlyInverterData, maximum per bucket *)

\* 24 * time.Hour, in ticks
Day == 288

\* bounds of the inverter feed: pages per day, samples per page, window length
MaxPages == 2

MaxPageLen == 2

GeBuckets == 3

\* the resolution of a counter: a float64 number of kWh is a whole number of
\* 1/ValueUnit kWh; every difference of two sample instants (00:55, 01:05,
\* 01:30, 02:10) divides ValueUnit,
\* so the interpolation between any two samples is exact
ValueUnit == 2 * 2 * 2 * 3 * 5 * 7 * 13

\* a data point: d.Time, d.Total.Grid.Import, d.Total.Grid.Export
Sample(time, import, export) == [Time |-> time, Import |-> import, Export |-> export]

\* one sample before the window, two of the same instant in the first bucket
\* (the greater import with the smaller export), one on the boundary 01:30,
\* one in the third bucket
GeSamples ==
    { Sample(WindowBase - 1, 1 * ValueUnit, 0),
      Sample(WindowBase + 1, 1 * ValueUnit, 3 * ValueUnit),
      Sample(WindowBase + 1, 4 * ValueUnit, 0),
      Sample(WindowBase + HalfHour, 4 * ValueUnit, 3 * ValueUnit),
      Sample(WindowBase + 2 * HalfHour + 2, 4 * ValueUnit, 3 * ValueUnit) }

GePages == SeqsUpTo(GeSamples, MaxPageLen)

\* &GE_UsageRow{Timestamp: hf}
GE_UsageRow(hf) ==
    [Timestamp |-> hf, CumulativeImportInverter |-> 0, CumulativeExportInverter |-> 0,
     ImportKWh |-> 0, ExportKWh |-> 0]

\* mutant: the last value delivered wins
keepMax_LastWins(cur, new) == new

\* if imported > row.CumulativeImportInverter { row.CumulativeImportInverter = imported }
keepMax(cur, new) == IF new > cur THEN new ELSE cur

\* the body of: for _, d := range response.Payload.Data
ingestSample(m, d) ==
    LET hf  == Trunc30(d.Time)
        row == IF Has(m, hf) THEN m[hf] ELSE GE_UsageRow(hf)
    IN  Put(m, hf, [row EXCEPT
                       !.CumulativeExportInverter = keepMax(@, d.Export),
                       !.CumulativeImportInverter = keepMax(@, d.Import)])

RECURSIVE ingestPage(_, _, _)
ingestPage(m, samples, i) ==
    IF i > Len(samples) THEN m
    ELSE ingestPage(ingestSample(m, samples[i]), samples, i + 1)

\* mutant: previous stays at the first populated bucket
nextPrevious_First(previous, row) == IF previous = None THEN Some(row) ELSE previous

\* previous = row
nextPrevious(previous, row) == Some(row)

\* mutant: the delta is taken as the previous value minus the value of the bucket
RECURSIVE finalizeWalk_Reversed(_, _, _, _)
finalizeWalk_Reversed(m, previous, t, endT) ==
    IF ~Before(t, endT) THEN m
    ELSE IF ~Has(m, t) THEN
        IF previous # None
        THEN finalizeWalk_Reversed(Put(m, t, Val(previous)), previous, t + HalfHour, endT)
        ELSE finalizeWalk_Reversed(m, previous, t + HalfHour, endT)
    ELSE LET row == IF previous # None
                    THEN [m[t] EXCEPT
                            !.ImportKWh = Val(previous).CumulativeImportInverter
                                          - m[t].CumulativeImportInverter,
                            !.ExportKWh = Val(previous).CumulativeExportInverter
                                          - m[t].CumulativeExportInverter]
                    ELSE m[t]
         IN  finalizeWalk_Reversed(Put(m, t, row), Some(row), t + HalfHour, endT)

\* var previous *GE_UsageRow; for t := start; t.Before(end); t = t.Add(30 * time.Minute)
RECURSIVE finalizeWalk(_, _, _, _)
finalizeWalk(m, previous, t, endT) ==
    IF ~Before(t, endT) THEN m
    ELSE IF ~Has(m, t) THEN
        IF previous # None
        THEN finalizeWalk(Put(m, t, Val(previous)), previous, t + HalfHour, endT)
        ELSE finalizeWalk(m, previous, t + HalfHour, endT)
    ELSE LET row == IF previous # None
                    THEN [m[t] EXCEPT
                            !.ImportKWh = m[t].CumulativeImportInverter
                                          - Val(previous).CumulativeImportInverter,
                            !.ExportKWh = m[t].CumulativeExportInverter
                                          - Val(previous).CumulativeExportInverter]
                    ELSE m[t]
         IN  finalizeWalk(Put(m, t, row), nextPrevious(previous, row), t + HalfHour, endT)

\* for k, v := range data { o, ok := out[k]; if !ok { o = &UsageRow{Timestamp: v.Timestamp} } ... }
copyOut(out, m) ==
    [k \in (DOMAIN out) \cup (DOMAIN m) |->
        IF Has(m, k)
        THEN [(IF Has(out, k) THEN out[k] ELSE UsageRow(m[k].Timestamp)) EXCEPT
                 !.CumulativeImportInverter = Some(m[k].CumulativeImportInverter),
                 !.CumulativeExportInverter = Some(m[k].CumulativeExportInverter),
                 !.GE_ImportKWh             = Some(m[k].ImportKWh),
                 !.GE_ExportKWh             = Some(m[k].ExportKWh)]
        ELSE out[k]]

SamplesOf(samples) == {samples[i] : i \in 1..Len(samples)}

\* a sample of the page is below what its bucket already holds when it arrives
RECURSIVE arrivesBelow(_, _, _)
arrivesBelow(m, samples, i) ==
    IF i > Len(samples) THEN FALSE
    ELSE \/ /\ Has(m, Trunc30(samples[i].Time))
            /\ samples[i].Import < m[Trunc30(samples[i].Time)].CumulativeImportInverter
         \/ arrivesBelow(ingestSample(m, samples[i]), samples, i + 1)

\* one request of the page loop and what follows its response: the samples are
\* folded into data; on the last page of the last day the walk over the
\* window and the copy into out end the call.  The API echoes the page asked
\* for as meta.current_page and sends no data past meta.last_page.
MaxFetchPage(pages, after) ==
    /\ pc = "giv"
    /\ Before(day, end)
    /\ page <= MaxPages
    /\ \E samples \in (IF page <= lastPage THEN pages ELSE {<<>>}) :
          LET ingested == ingestPage(data, samples, 1)
              nextDay  == day + Day
              final    == finalizeWalk(ingested, None, start, end)
          IN  /\ delivered' = delivered \cup SamplesOf(samples)
              /\ outOfOrder' = (outOfOrder \/ arrivesBelow(data, samples, 1))
              /\ duplicated' = (duplicated
                                \/ SamplesOf(samples) \cap delivered # {}
                                \/ Cardinality(SamplesOf(samples)) < Len(samples))
              /\ IF page # lastPage
                 THEN /\ page' = page + 1
                      /\ data' = ingested
                      /\ UNCHANGED <<day, lastPage, usage, pc>>
                 ELSE IF Before(nextDay, end)
                 THEN /\ day' = nextDay
                      /\ lastPage' \in 1..MaxPages
                      /\ data' = ingested
                      /\ UNCHANGED <<page, usage, pc>>
                 ELSE /\ day' = nextDay
                      /\ data' = final
                      /\ usage' = copyOut(usage, final)
                      /\ pc' = after
                      /\ UNCHANGED <<page, lastPage>>
    /\ calls' = Append(calls, Call("giv", page < lastPage, usage, usage'))
    /\ UNCHANGED <<rateVars, costVars, twiceVars, start, end, zone, geoVars, runVars>>

\* mutant: the error of the request is logged and the next phase is entered
GivFetchFails_Swallowed ==
    /\ pc = "giv"
    /\ Before(day, end)
    /\ pc' = "importTariffs"
    /\ calls' = Append(calls, FailedCall("giv"))
    /\ UNCHANGED <<rateVars, costVars, twiceVars, start, end, zone, usage, geoVars, givVars, runVars>>

\* response, err := s.Client.InverterData.GetDataPoints2(params, nil); if err != nil { return ... }
GivFetchFails ==
    /\ pc = "giv"
    /\ Before(day, end)
    /\ pc' = "error"
    /\ calls' = Append(calls, FailedCall("giv"))
    /\ UNCHANGED <<rateVars, costVars, twiceVars, start, end, zone, usage, geoVars, givVars, runVars>>

MaxNext ==
    \/ MaxFetchPage(GePages, "done")
    \/ GivFetchFails

----------------------------------------------------------------------------
(* GivEnergyService.FetchHalfHourlyInverterData, interpolated *)

\* float64 values that are not numbers of kWh: a division by a zero duration
PosInf == 1000000000

NegInf == -1000000000

NaN == 1000000001

NonFinite == {PosInf, NegInf, NaN}

\* mutant: the operands are exchanged
FSub_Reversed(x, y) == IF x \in NonFinite \/ y \in NonFinite THEN NaN ELSE y - x

\* float64 x - y
FSub(x, y) ==
    IF x = NaN \/ y = NaN THEN NaN
    ELSE IF x \in NonFinite THEN (IF y = x THEN NaN ELSE x)
    ELSE IF y = PosInf THEN NegInf
    ELSE IF y = NegInf THEN PosInf
    ELSE x - y

\* the element appended to data for a data point d
dataPoint(d) ==
    [timestamp |-> d.Time, cumulativeImport |-> d.Import, cumulativeExport |-> d.Export]

RECURSIVE appendPage(_, _, _)
appendPage(pts, samples, i) ==
    IF i > Len(samples) THEN pts
    ELSE appendPage(Append(pts, dataPoint(samples[i])), samples, i + 1)

\* sort.Slice(data, less by timestamp): the sort is not stable, so elements of
\* one timestamp end in any order
RECURSIVE sortedFrom(_, _)
sortedFrom(pts, idx) ==
    IF idx = {} THEN {<<>>}
    ELSE LET first == {i \in idx : \A j \in idx : ~Before(pts[j].timestamp, pts[i].timestamp)}
         IN  UNION {{<<pts[i]>> \o rest : rest \in sortedFrom(pts, idx \ {i})} : i \in first}

sortSlice(pts) == sortedFrom(pts, 1..Len(pts))

\* for i := 1; i < len(data); i++ { if data[i].timestamp.After(t) { ...; break } }
\* as a position of the sequence (from 2), 0 when the loop ends without found
RECURSIVE findAfter(_, _, _)
findAfter(pts, t, i) ==
    IF i > Len(pts) THEN 0
    ELSE IF After(pts[i].timestamp, t) THEN i
    ELSE findAfter(pts, t, i + 1)

\* factor := (t - prevT) / (nextT - prevT); prev + factor*(next - prev)
interpolate(t, prevT, prev, nextT, next) ==
    IF nextT - prevT # 0 THEN prev + ((t - prevT) * (next - prev)) \div (nextT - prevT)
    ELSE IF t - prevT = 0 \/ next - prev = 0 THEN NaN
    ELSE IF (t - prevT > 0) = (next - prev > 0) THEN PosInf
    ELSE NegInf

\* adjustedTime := t.Add(-30 * time.Minute)
adjustedTime(t) == t - HalfHour

\* for t := start.Truncate(30 * time.Minute); t.Before(end); t = t.Add(30 * time.Minute)
\* last is None while lastTime.IsZero(), else the values of the boundary before
RECURSIVE interpolateWalk(_, _, _, _, _)
interpolateWalk(out, pts, last, t, endT) ==
    IF ~Before(t, endT) THEN out
    ELSE LET i == findAfter(pts, t, 2)
             found == i # 0
             interpImport ==
                 IF found
                 THEN interpolate(t, pts[i - 1].timestamp, pts[i - 1].cumulativeImport,
                                  pts[i].timestamp, pts[i].cumulativeImport)
                 ELSE IF Len(pts) > 0 THEN pts[Len(pts)].cumulativeImport ELSE 0
             interpExport ==
                 IF found
                 THEN interpolate(t, pts[i - 1].timestamp, pts[i - 1].cumulativeExport,
                                  pts[i].timestamp, pts[i].cumulativeExport)
                 ELSE IF Len(pts) > 0 THEN pts[Len(pts)].cumulativeExport ELSE 0
             row  == [RowAt(out, adjustedTime(t)) EXCEPT
                         !.CumulativeImportInverter = Some(interpImport),
                         !.CumulativeExportInverter = Some(interpExport)]
             row2 == IF last # None
                     THEN [row EXCEPT
                             !.GE_ImportKWh = Some(FSub(interpImport, Val(last).Import)),
                             !.GE_ExportKWh = Some(FSub(interpExport, Val(last).Export))]
                     ELSE row
         IN  interpolateWalk(Put(out, adjustedTime(t), row2), pts,
                             Some([Import |-> interpImport, Export |-> interpExport]),
                             t + HalfHour, endT)

\* one request of the page loop and what follows its response: the samples are
\* appended to data; after the last page of the last day data is sorted and
\* the boundaries of the window are written to out.  page starts at 1 for each day.
InterpFetchPage(pages, after) ==
    /\ pc = "giv"
    /\ Before(day, end)
    /\ \E samples \in pages :
          LET appended == appendPage(data, samples, 1)
              nextDay  == day + Day
          IN  /\ delivered' = delivered \cup SamplesOf(samples)
              /\ duplicated' = (duplicated
                                \/ SamplesOf(samples) \cap delivered # {}
                                \/ Cardinality(SamplesOf(samples)) < Len(samples))
              /\ outOfOrder' = (outOfOrder
                                \/ \E i \in 1..Len(appended) : \E j \in 1..Len(appended) :
                                       i < j /\ Before(appended[j].timestamp, appended[i].timestamp))
              /\ IF ~(page >= lastPage)
                 THEN /\ page' = page + 1
                      /\ data' = appended
                      /\ UNCHANGED <<day, lastPage, usage, pc>>
                 ELSE IF Before(nextDay, end)
                 THEN /\ day' = nextDay
                      /\ page' = 1
                      /\ lastPage' \in 1..MaxPages
                      /\ data' = appended
                      /\ UNCHANGED <<usage, pc>>
                 ELSE /\ day' = nextDay
                      /\ data' \in sortSlice(appended)
                      /\ usage' = interpolateWalk(usage, data', None, Trunc30(start), end)
                      /\ pc' = after
                      /\ UNCHANGED <<page, lastPage>>
    /\ calls' = Append(calls, Call("giv", page < lastPage, usage, usage'))
    /\ UNCHANGED <<rateVars, costVars, twiceVars, start, end, zone, geoVars, runVars>>

InterpNext ==
    \/ InterpFetchPage(GePages, "done")
    \/ GivFetchFails

----------------------------------------------------------------------------
(* App.Run: the four phases over one shared store, then the CSV file *)

\* the pages of the feeds Run reads hold one record or none
OnePerPage(S) == {<<>>} \cup {<<x>> : x \in S}

\* the number of requests issued to a source so far
RECURSIVE callsTo(_, _)
callsTo(src, n) ==
    IF n = 0 THEN 0 ELSE callsTo(src, n - 1) + (IF calls[n].src = src THEN 1 ELSE 0)

\* a feed has at most MaxPages pages: the last one cannot announce another
MayAnnounceMore(src) == callsTo(src, Len(calls)) + 1 < MaxPages

\* the consumption result Octopus may return: r.IntervalStart, r.Consumption
OctoResults == {[IntervalStart |-> WindowBase, Consumption |-> 2]}

OctoPages == OnePerPage(OctoResults)

\* the body of: for _, r := range response.Payload.Results
RECURSIVE storeResults(_, _, _)
storeResults(u, results, i) ==
    IF i > Len(results) THEN u
    ELSE LET hf == Trunc30(results[i].IntervalStart)
         IN  storeResults(Put(u, hf, [RowAt(u, hf) EXCEPT
                                         !.OCTO_ImportKWh = Some(results[i].Consumption)]),
                          results, i + 1)

\* mutant: the loop ends after the first page
lastPageOf_Always(next) == TRUE

\* if response.Payload.Next == nil { break }
lastPageOf(next) == next = None

\* one request of OctopusService.GetData and the handling of its response
OctoGetDataPage ==
    /\ pc = "octopus"
    /\ \E results \in OctoPages :
       \E next \in (IF MayAnnounceMore("octopus") THEN {None, Some("next")} ELSE {None}) :
          /\ usage' = storeResults(usage, results, 1)
          /\ calls' = Append(calls, Call("octopus", next # None, usage, usage'))
          /\ pc' = IF lastPageOf(next) THEN "geo" ELSE "octopus"
    /\ UNCHANGED <<rateVars, costVars, twiceVars, start, end, zone, geoVars, givVars, runVars>>

\* ListConsumptionForAnElectricityMeter returned an error or !response.IsSuccess()
OctoFails ==
    /\ pc = "octopus"
    /\ pc' = "error"
    /\ calls' = Append(calls, FailedCall("octopus"))
    /\ UNCHANGED <<rateVars, costVars, twiceVars, start, end, zone, usage, geoVars, givVars, runVars>>

\* the epoch feeds of Run: none; the first test group at the start of the
\* window; that group and one in the last quarter hour of a two-hour window;
\* a group of zero energy in the last half hour
RunGeoFeeds ==
    LET first == [StartTimestamp |-> WindowBase,
                  Readings |-> <<Reading("IMPORT", 1470, 34559), Reading("GAS_ENERGY", 500, 12000)>>]
        final == [StartTimestamp |-> WindowBase + 3 * HalfHour + GeoStep,
                  Readings |-> <<Reading("IMPORT", 1358, 31926), Reading("GAS_ENERGY", 700, 18000)>>]
        zero  == [StartTimestamp |-> WindowBase + 3 * HalfHour,
                  Readings |-> <<Reading("IMPORT", 0, 7)>>]
    IN  {<<>>, <<first>>, <<first, final>>, <<first, zero>>}

\* the inverter samples of Run: a counter that grows, read at 01:05 and 02:10
RunSamples ==
    { Sample(WindowBase + 1, 1 * ValueUnit, 3 * ValueUnit),
      Sample(WindowBase + 2 * HalfHour + 2, 4 * ValueUnit, 3 * ValueUnit) }

RunGePages == OnePerPage(RunSamples)

\* the unit rate Octopus may return: 10.5p for the first hour of the window
RunTariffs ==
    {[Rate |-> 105, ValidFrom |-> Some(WindowBase), ValidTo |-> Some(WindowBase + 2 * HalfHour)]}

RunTariffPages == OnePerPage(RunTariffs)

\* one request of FetchTariffs for the import meter and the handling of its response
FetchImportTariffsPage ==
    /\ pc = "importTariffs"
    /\ \E rates \in RunTariffPages :
       \E next \in (IF MayAnnounceMore("importTariffs") THEN {None, Some("next")} ELSE {None}) :
          /\ importTariffs' = importTariffs \o rates
          /\ calls' = Append(calls, Call("importTariffs", next # None, usage, usage))
          /\ pc' = IF lastPageOf(next) THEN "exportTariffs" ELSE "importTariffs"
    /\ UNCHANGED <<rateVars, costVars, twiceVars, start, end, zone, usage, geoVars, givVars, exportTariffs, csv, file>>

\* one request of FetchTariffs for the export meter and the handling of its response
FetchExportTariffsPage ==
    /\ pc = "exportTariffs"
    /\ \E rates \in RunTariffPages :
       \E next \in (IF MayAnnounceMore("exportTariffs") THEN {None, Some("next")} ELSE {None}) :
          /\ exportTariffs' = exportTariffs \o rates
          /\ calls' = Append(calls, Call("exportTariffs", next # None, usage, usage))
          /\ pc' = IF lastPageOf(next) THEN "resolve" ELSE "exportTariffs"
    /\ UNCHANGED <<rateVars, costVars, twiceVars, start, end, zone, usage, geoVars, givVars, importTariffs, csv, file>>

\* ListElectricityTariffStandardUnitRates returned an error
FetchTariffsFails ==
    /\ pc \in {"importTariffs", "exportTariffs"}
    /\ pc' = "error"
    /\ calls' = Append(calls, FailedCall(pc))
    /\ UNCHANGED <<rateVars, costVars, twiceVars, start, end, zone, usage, geoVars, givVars, runVars>>

\* mutant: the export price is never assigned
resolvePrices_ImportOnly(u, imports, exports) ==
    [k \in DOMAIN u |-> [u[k] EXCEPT !.ImportPrice = Some(findRateForTime(k, imports))]]

\* for timestamp, row := range givData { row.ImportPrice = ...; row.ExportPrice = ... }
resolvePrices(u, imports, exports) ==
    [k \in DOMAIN u |-> [u[k] EXCEPT !.ImportPrice = Some(findRateForTime(k, imports)),
                                     !.ExportPrice = Some(findRateForTime(k, exports))]]

\* mutant: the comparison is reversed, the rows end in descending order
rowLess_Descending(a, b) == After(a.Timestamp, b.Timestamp)

\* func(i, j int) bool { return data[i].Timestamp.Before(data[j].Timestamp) }
rowLess(a, b) == Before(a.Timestamp, b.Timestamp)

\* sort.Slice(data, rowLess) of the rows collected from the map: rows of one
\* Timestamp end in any order
RECURSIVE sortedRows(_, _)
sortedRows(u, keys) ==
    IF keys = {} THEN {<<>>}
    ELSE LET first == {k \in keys : \A j \in keys : ~rowLess(u[j], u[k])}
         IN  UNION {{<<u[k]>> \o rest : rest \in sortedRows(u, keys \ {k})} : k \in first}

\* mutant: every row is written
dropFirst_None(rows) == rows

\* data = data[1:]
dropFirst(rows) == Tail(rows)

\* mutant: only an empty slice is refused
tooFewRows_OnlyEmpty(rows) == Len(rows) < 1

\* if len(data) < 2 { return fmt.Errorf("not enough data to write CSV") }
tooFewRows(rows) == Len(rows) < 2

\* the file after os.Create, the header and the records: os.Create truncates
\* what the file held
FileOf(records) == Some([header |-> TRUE, records |-> records])

\* the last step of Run: the prices of every row, the sort, writeCSV;
\* created is whether os.Create succeeded
ResolveAndWrite ==
    /\ pc = "resolve"
    /\ usage' = resolvePrices(usage, importTariffs, exportTariffs)
    /\ calls' = Append(calls, Call("resolve", FALSE, usage, usage'))
    /\ \E rows \in sortedRows(usage', DOMAIN usage') :
       \E created \in BOOLEAN :
          IF tooFewRows(rows) \/ ~created
          THEN /\ pc' = "error"
               /\ UNCHANGED <<csv, file>>
          ELSE /\ pc' = "done"
               /\ csv' = dropFirst(rows)
               /\ file' = FileOf(csv')
    /\ UNCHANGED <<rateVars, costVars, twiceVars, start, end, zone, geoVars, givVars, importTariffs, exportTariffs>>

RunNext ==
    \/ OctoGetDataPage
    \/ OctoFails
    \/ CallPopulateGeoData(RunGeoFeeds, "giv")
    \/ GeoFails
    \/ InterpFetchPage(RunGePages, "importTariffs")
    \/ GivFetchFails
    \/ FetchImportTariffsPage
    \/ FetchExportTariffsPage
    \/ FetchTariffsFails
    \/ ResolveAndWrite

----------------------------------------------------------------------------
(* The pipeline on rows of values: UsageRow holds float64 and int64 fields,  *)
(* not pointers, and a field never assigned is 0.  GetData and the           *)
(* FetchHalfHourlyInverterData of src/main.go and the PopulateGeoData of     *)
(* src/geo.go work on these rows.                                            *)

\* &UsageRow{Timestamp: ts} of the struct of values
UsageRowOfValues(ts) ==
    [Timestamp                   |-> ts,
     CumulativeImportInverter    |-> 0,
     CumulativeExportInverter    |-> 0,
     ImportPrice                 |-> 0,
     ExportPrice                 |-> 0,
     GEO_ImportGasWh             |-> 0,
     GEO_ImportWh                |-> 0,
     GE_ImportKWh                |-> 0,
     GE_ExportKWh                |-> 0,
     GEO_ImportMilliPenceCost    |-> 0,
     GEO_ImportGasMilliPenceCost |-> 0,
     OCTO_ImportKWh              |-> 0]

\* row, ok := usage[k]; if !ok { row = &UsageRow{Timestamp: k} }
RowOfValuesAt(u, k) == IF Has(u, k) THEN u[k] ELSE UsageRowOfValues(k)

\* GetData: for _, r := range response.Payload.Results { ...; row.OCTO_ImportKWh = r.Consumption }
RECURSIVE storeConsumption(_, _, _)
storeConsumption(u, results, i) ==
    IF i > Len(results) THEN u
    ELSE LET hf == Trunc30(results[i].IntervalStart)
         IN  storeConsumption(Put(u, hf, [RowOfValuesAt(u, hf) EXCEPT
                                             !.OCTO_ImportKWh = results[i].Consumption]),
                              results, i + 1)

\* PopulateGeoData, step 1: the four cumulative maps, empty, and the running totals
CumulativeEmpty ==
    [cumulativeEnergy |-> EmptyMap, cumulativeGas |-> EmptyMap,
     cumulativeCost |-> EmptyMap, cumulativeGasCost |-> EmptyMap,
     lastCumulativeEnergy |-> 0, lastCumulativeGas |-> 0,
     lastCumulativeCost |-> 0, lastCumulativeGasCost |-> 0]

\* the body of: for _, reading := range readingGroup.Readings
accumulateReading(c, startTime, reading, startDate, endDate) ==
    IF Before(startTime, startDate) \/ After(startTime, endDate) THEN c
    ELSE LET endTime == startTime + reading.Duration
         IN  IF reading.EnergyType = "IMPORT"
             THEN [c EXCEPT
                     !.cumulativeEnergy = Put(@, endTime, c.lastCumulativeEnergy + reading.EnergyWattHours),
                     !.cumulativeCost = Put(@, endTime, c.lastCumulativeCost + reading.MilliPenceCost),
                     !.lastCumulativeEnergy = c.lastCumulativeEnergy + reading.EnergyWattHours,
                     !.lastCumulativeCost = c.lastCumulativeCost + reading.MilliPenceCost]
             ELSE IF reading.EnergyType = "GAS_ENERGY"
             THEN [c EXCEPT
                     !.cumulativeGas = Put(@, endTime, c.lastCumulativeGas + reading.EnergyWattHours),
                     !.cumulativeGasCost = Put(@, endTime, c.lastCumulativeGasCost + reading.MilliPenceCost),
                     !.lastCumulativeGas = c.lastCumulativeGas + reading.EnergyWattHours,
                     !.lastCumulativeGasCost = c.lastCumulativeGasCost + reading.MilliPenceCost]
             ELSE c

RECURSIVE accumulateGroup(_, _, _, _, _)
accumulateGroup(c, group, i, startDate, endDate) ==
    IF i > Len(group.Readings) THEN c
    ELSE accumulateGroup(accumulateReading(c, group.StartTimestamp, group.Readings[i], startDate, endDate),
                         group, i + 1, startDate, endDate)

\* for _, readingGroup := range readings
RECURSIVE accumulateReadings(_, _, _, _, _)
accumulateReadings(c, groups, g, startDate, endDate) ==
    IF g > Len(groups) THEN c
    ELSE accumulateReadings(accumulateGroup(c, groups[g], 1, startDate, endDate),
                            groups, g + 1, startDate, endDate)

\* if value, exists := cumulative[ts]; exists { sum += value - prev; prev = value }
addSnapshot(acc, m, ts) ==
    IF Has(m, ts) THEN [sum |-> acc.sum + (m[ts] - acc.prev), prev |-> m[ts]] ELSE acc

\* for offset := 0; offset < 30; offset += 5, for one of the maps: an offset per tick
RECURSIVE sumSlot(_, _, _, _)
sumSlot(acc, m, t, offset) ==
    IF offset >= HalfHour THEN acc
    ELSE sumSlot(addSnapshot(acc, m, t + offset), m, t, offset + 1)

\* mutant: count counts the snapshots found in the slot
slotCount_Snapshots(c, t) ==
    Cardinality({ts \in t..(t + HalfHour - 1) :
                    \/ Has(c.cumulativeEnergy, ts) \/ Has(c.cumulativeGas, ts)
                    \/ Has(c.cumulativeCost, ts) \/ Has(c.cumulativeGasCost, ts)})

\* count after the loop over the offsets: count++ is its last statement,
\* whether or not a snapshot was found
slotCount(c, t) == Cardinality(t..(t + HalfHour - 1))

\* PopulateGeoData, step 2:
\* for t := startDate.Truncate(30 * time.Minute); t.Before(endDate); t = t.Add(30 * time.Minute)
RECURSIVE cumulativeBuckets(_, _, _, _, _)
cumulativeBuckets(u, c, prev, t, endDate) ==
    IF ~Before(t, endDate) THEN u
    ELSE LET sumEnergy  == sumSlot([sum |-> 0, prev |-> prev.Energy], c.cumulativeEnergy, t, 0)
             sumGas     == sumSlot([sum |-> 0, prev |-> prev.Gas], c.cumulativeGas, t, 0)
             sumCost    == sumSlot([sum |-> 0, prev |-> prev.Cost], c.cumulativeCost, t, 0)
             sumGasCost == sumSlot([sum |-> 0, prev |-> prev.GasCost], c.cumulativeGasCost, t, 0)
             next       == [Energy |-> sumEnergy.prev, Gas |-> sumGas.prev,
                            Cost |-> sumCost.prev, GasCost |-> sumGasCost.prev]
         IN  IF slotCount(c, t) = 0
             THEN cumulativeBuckets(u, c, next, t + HalfHour, endDate)
             ELSE cumulativeBuckets(
                      Put(u, t, [RowOfValuesAt(u, t) EXCEPT
                                    !.GEO_ImportWh = sumEnergy.sum,
                                    !.GEO_ImportGasWh = sumGas.sum,
                                    !.GEO_ImportMilliPenceCost = sumCost.sum,
                                    !.GEO_ImportGasMilliPenceCost = sumGasCost.sum]),
                      c, next, t + HalfHour, endDate)

\* PopulateGeoData of src/geo.go, after GetSystemReadings
PopulateGeoDataCumulative(u, groups, startDate, endDate) ==
    cumulativeBuckets(u, accumulateReadings(CumulativeEmpty, groups, 1, startDate, endDate),
                      [Energy |-> 0, Gas |-> 0, Cost |-> 0, GasCost |-> 0],
                      Trunc30(startDate), endDate)

\* a reading of an epoch of duration ticks
EpochReading(type, wh, cost, duration) ==
    [EnergyType |-> type, EnergyWattHours |-> wh, MilliPenceCost |-> cost, Duration |-> duration]

\* the epoch feeds: none; one 15-minute epoch at 01:00; three consecutive
\* 15-minute epochs from 01:00, the first with a gas reading
EpochFeeds ==
    LET g1 == [StartTimestamp |-> WindowBase,
               Readings |-> <<EpochReading("IMPORT", 1470, 34559, GeoStep),
                              EpochReading("GAS_ENERGY", 500, 12000, GeoStep)>>]
        g2 == [StartTimestamp |-> WindowBase + GeoStep,
               Readings |-> <<EpochReading("IMPORT", 1541, 36228, GeoStep)>>]
        g3 == [StartTimestamp |-> WindowBase + 2 * GeoStep,
               Readings |-> <<EpochReading("IMPORT", 1358, 31926, GeoStep)>>]
    IN  {<<>>, <<g1>>, <<g1, g2, g3>>}

\* FetchHalfHourlyInverterData on the shared store: the body of
\* for _, d := range response.Payload.Data
RECURSIVE ingestShared(_, _, _)
ingestShared(out, samples, i) ==
    IF i > Len(samples) THEN out
    ELSE LET hf  == Trunc30(samples[i].Time)
             row == RowOfValuesAt(out, hf)
         IN  ingestShared(Put(out, hf, [row EXCEPT
                                           !.CumulativeExportInverter = keepMax(@, samples[i].Export),
                                           !.CumulativeImportInverter = keepMax(@, samples[i].Import)]),
                          samples, i + 1)

\* for t := start; t.Before(end); t = t.Add(30 * time.Minute), previous being
\* nil (None) or the row it points to
RECURSIVE walkShared(_, _, _, _)
walkShared(out, previous, t, endT) ==
    IF ~Before(t, endT) THEN out
    ELSE IF ~Has(out, t)
    THEN IF previous # None
         THEN walkShared(Put(out, t, Val(previous)), previous, t + HalfHour, endT)
         ELSE walkShared(out, previous, t + HalfHour, endT)
    ELSE LET row == IF previous # None
                    THEN [out[t] EXCEPT
                            !.GE_ImportKWh = out[t].CumulativeImportInverter
                                             - Val(previous).CumulativeImportInverter,
                            !.GE_ExportKWh = out[t].CumulativeExportInverter
                                             - Val(previous).CumulativeExportInverter]
                    ELSE out[t]
         IN  walkShared(Put(out, t, row), Some(row), t + HalfHour, endT)

SharedGePages == OnePerPage(GeSamples)

\* the request of GetData and the handling of its one page
SharedOctoGetData ==
    /\ pc = "octopus"
    /\ \E results \in OctoPages : usage' = storeConsumption(usage, results, 1)
    /\ pc' = "geo"
    /\ UNCHANGED <<rateVars, costVars, twiceVars, start, end, zone, geoVars, givVars, calls, runVars>>

\* PopulateGeoData of src/geo.go; the store it leaves is the one the inverter
\* reconciler is entered with
SharedPopulateGeoData ==
    /\ pc = "geo"
    /\ \E groups \in EpochFeeds :
          /\ readings' = groups
          /\ usage' = PopulateGeoDataCumulative(usage, groups, start, end)
    /\ snapshots' = <<usage'>>
    /\ pc' = "giv"
    /\ UNCHANGED <<rateVars, costVars, feed, start, end, zone, givVars, calls, runVars>>

\* one request of the first call of FetchHalfHourlyInverterData and what
\* follows its response: the samples go into the rows of the store; after the
\* last page the window is walked.  The second call follows with the same range.
SharedFetchPage ==
    /\ pc = "giv"
    /\ Before(day, end)
    /\ \E samples \in SharedGePages :
          LET ingested == ingestShared(usage, samples, 1)
          IN  /\ feed' = Append(feed, samples)
              /\ IF page = lastPage
                 THEN /\ usage' = walkShared(ingested, None, start, end)
                      /\ snapshots' = Append(snapshots, usage')
                      /\ page' = 1
                      /\ pc' = "giv2"
                 ELSE /\ usage' = ingested
                      /\ page' = page + 1
                      /\ UNCHANGED <<snapshots, pc>>
    /\ UNCHANGED <<rateVars, costVars, start, end, zone, geoVars, data, day, lastPage,
                   delivered, outOfOrder, duplicated, calls, runVars>>

\* one request of the second call: the API serves the pages it served before
SharedFetchPageAgain ==
    /\ pc = "giv2"
    /\ Before(day, end)
    /\ LET ingested == ingestShared(usage, feed[page], 1)
       IN  IF page = lastPage
           THEN /\ usage' = walkShared(ingested, None, start, end)
                /\ page' = 1
                /\ pc' = "done"
           ELSE /\ usage' = ingested
                /\ page' = page + 1
                /\ UNCHANGED pc
    /\ UNCHANGED <<rateVars, costVars, twiceVars, start, end, zone, geoVars, data, day, lastPage,
                   delivered, outOfOrder, duplicated, calls, runVars>>

SharedNext ==
    \/ SharedOctoGetData
    \/ SharedPopulateGeoData
    \/ SharedFetchPage
    \/ SharedFetchPageAgain

----------------------------------------------------------------------------
(* The keys of the store.  A Go map keyed by time.Time tells two keys apart *)
(* by == on the struct, which compares the Location pointer as well as the  *)
(* instant.  The store is kept here as one map of instants per Location:    *)
(* usage[l][t] is the row under the key of instant t and Location l.        *)

\* the Location of a key: time.Local after .Local(), and what
\* time.Parse(time.RFC3339, ...) gives a start written with Z
Locations == {"Local", "UTC"}

\* one request of GetMeterConsumption and the handling of its response:
\* hf := time.Time(r.IntervalStart).Truncate(30 * time.Minute).Local()
KeyedGetMeterConsumption ==
    /\ pc = "octopus"
    /\ \E results \in OctoPages :
       \E next \in (IF MayAnnounceMore("octopus") THEN {None, Some("next")} ELSE {None}) :
          /\ usage' = [usage EXCEPT !["Local"] = storeResults(@, results, 1)]
          /\ calls' = Append(calls, Call("octopus", next # None, usage["Local"], usage'["Local"]))
          /\ pc' = IF lastPageOf(next) THEN "geo" ELSE "octopus"
    /\ UNCHANGED <<rateVars, costVars, twiceVars, start, end, zone, geoVars, givVars, runVars>>

\* PopulateGeoData keyed by group start:
\* for t := startDate.Truncate(30 * time.Minute).Local(); ...; usage[t] = row
KeyedPopulateGeoData ==
    /\ pc = "geo"
    /\ \E groups \in RunGeoFeeds :
          /\ readings' = groups
          /\ usage' = [usage EXCEPT !["Local"] = PopulateGeoData(@, groups, start, end)]
    /\ pc' = "giv"
    /\ calls' = Append(calls, Call("geo", FALSE, usage["Local"], usage'["Local"]))
    /\ UNCHANGED <<rateVars, costVars, twiceVars, start, end, zone, givVars, runVars>>

\* the interpolated FetchHalfHourlyInverterData over the one day of the
\* window, its pages taken together:
\* for t := start.Truncate(30 * time.Minute); ...; out[t.Add(-30 * time.Minute)] = row
KeyedFetchInverterData ==
    /\ pc = "giv"
    /\ \E samples \in SeqsUpTo(RunSamples, MaxPageLen) :
          /\ delivered' = SamplesOf(samples)
          /\ data' \in sortSlice(appendPage(data, samples, 1))
          /\ usage' = [usage EXCEPT ![zone] = interpolateWalk(@, data', None, Trunc30(start), end)]
    /\ day' = day + Day
    /\ pc' = "done"
    /\ calls' = Append(calls, Call("giv", FALSE, usage[zone], usage'[zone]))
    /\ UNCHANGED <<rateVars, costVars, twiceVars, start, end, zone, geoVars,
                   page, lastPage, outOfOrder, duplicated, runVars>>

KeyedNext ==
    \/ KeyedGetMeterConsumption
    \/ KeyedPopulateGeoData
    \/ KeyedFetchInverterData

----------------------------------------------------------------------------
(* Specifications *)

\* no reconciler is under study
PipeIdle ==
    /\ start = 0
    /\ end = 0
    /\ zone = "Local"
    /\ usage = EmptyMap
    /\ pc = "idle"
    /\ readings = <<>>
    /\ GivIdle
    /\ RunIdle

\* a call of findRateForTime on any query instant and interval list of the bounds
RateInit ==
    /\ PipeIdle
    /\ CostIdle
    /\ qt \in QueryInstants
    /\ intervals \in SeqsUpTo(TariffData, MaxIntervals)
    /\ rate = 0
    /\ ratePc = "call"

\* computeCost evaluated on any pair of operands of the bounds, set or nil
CostInit ==
    /\ PipeIdle
    /\ RateIdle
    /\ energy \in EnergyOperands
    /\ price \in PriceOperands
    /\ costText = NaNText
    /\ evals = 0

\* computeCost alone
SpecCost == CostInit /\ [][CallComputeCost]_vars

\* the tariff resolver alone
SpecRate == RateInit /\ [][CallFindRateForTime]_vars

\* PopulateGeoData (keyed by group start) alone
SpecGeo == GeoInit /\ [][GeoNext]_vars

\* the maximum-per-bucket FetchHalfHourlyInverterData called alone on a window
\* of GeBuckets half hours, aligned or starting 5 minutes past the boundary,
\* on an empty store or on one that already holds a row of another source
MaxInit ==
    /\ RateIdle
    /\ CostIdle
    /\ start \in {WindowBase, WindowBase + 1}
    /\ end = start + GeBuckets * HalfHour
    /\ zone = "Local"
    /\ usage \in {EmptyMap,
                  Put(EmptyMap, WindowBase, [UsageRow(WindowBase) EXCEPT !.OCTO_ImportKWh = Some(1)])}
    /\ pc = "giv"
    /\ readings = <<>>
    /\ data = EmptyMap
    /\ day = start
    /\ page = 1
    /\ lastPage \in 1..MaxPages
    /\ delivered = {}
    /\ outOfOrder = FALSE
    /\ duplicated = FALSE
    /\ RunIdle

SpecMax == MaxInit /\ [][MaxNext]_vars

\* the maximum-per-bucket FetchHalfHourlyInverterData called alone on a
\* window of a day and half an hour: the day loop runs for start and for
\* start + 24h, each day served in lastPage pages
DaysInit ==
    /\ RateIdle
    /\ CostIdle
    /\ start \in {WindowBase, WindowBase + 1}
    /\ end = start + Day + HalfHour
    /\ zone = "Local"
    /\ usage = EmptyMap
    /\ pc = "giv"
    /\ readings = <<>>
    /\ data = EmptyMap
    /\ day = start
    /\ page = 1
    /\ lastPage \in 1..MaxPages
    /\ delivered = {}
    /\ outOfOrder = FALSE
    /\ duplicated = FALSE
    /\ RunIdle

\* the pages of the days hold one sample or none
DaysNext ==
    \/ MaxFetchPage(OnePerPage(GeSamples), "done")
    \/ GivFetchFails

SpecDays == DaysInit /\ [][DaysNext]_vars

\* the interpolated FetchHalfHourlyInverterData called alone, on the same
\* windows and stores
InterpInit ==
    /\ RateIdle
    /\ CostIdle
    /\ start \in {WindowBase, WindowBase + 1}
    /\ end = start + GeBuckets * HalfHour
    /\ zone = "Local"
    /\ usage \in {EmptyMap,
                  Put(EmptyMap, WindowBase, [UsageRow(WindowBase) EXCEPT !.OCTO_ImportKWh = Some(1)])}
    /\ pc = "giv"
    /\ readings = <<>>
    /\ data = <<>>
    /\ day = start
    /\ page = 1
    /\ lastPage \in 1..MaxPages
    /\ delivered = {}
    /\ outOfOrder = FALSE
    /\ duplicated = FALSE
    /\ RunIdle

SpecInterp == InterpInit /\ [][InterpNext]_vars

\* FetchHalfHourlyInverterData of src/main.go called twice on the shared store:
\* alone, on an empty store, or after GetData and PopulateGeoData have run
SharedInit ==
    /\ RateIdle
    /\ CostIdle
    /\ start \in {WindowBase, WindowBase + 1}
    /\ end = start + GeBuckets * HalfHour
    /\ zone = "Local"
    /\ usage = EmptyMap
    /\ pc \in {"octopus", "giv"}
    /\ readings = <<>>
    /\ data = <<>>
    /\ day = start
    /\ page = 1
    /\ lastPage \in 1..MaxPages
    /\ delivered = {}
    /\ outOfOrder = FALSE
    /\ duplicated = FALSE
    /\ feed = <<>>
    /\ snapshots = IF pc = "giv" THEN <<EmptyMap>> ELSE <<>>
    /\ calls = <<>>
    /\ importTariffs = <<>>
    /\ exportTariffs = <<>>
    /\ csv = <<>>
    /\ file = None

SpecShared == SharedInit /\ [][SharedNext]_vars

\* Run over a two-hour window that starts on a half-hour boundary or 5 minutes
\* past it; the inverter API serves the day in lastPage pages
RunInit ==
    /\ RateIdle
    /\ CostIdle
    /\ start \in {WindowBase, WindowBase + 1}
    /\ end = start + 4 * HalfHour
    /\ zone = "Local"
    /\ usage = EmptyMap
    /\ pc = "octopus"
    /\ readings = <<>>
    /\ data = <<>>
    /\ day = start
    /\ page = 1
    /\ lastPage \in 1..MaxPages
    /\ delivered = {}
    /\ outOfOrder = FALSE
    /\ duplicated = FALSE
    /\ RunIdle

SpecRun == RunInit /\ [][RunNext]_vars

\* the three source phases on a store whose keys keep their Location; the
\* requested start is aligned or not, and carries time.Local or UTC
KeyedInit ==
    /\ RateIdle
    /\ CostIdle
    /\ start \in {WindowBase, WindowBase + 1}
    /\ end = start + 4 * HalfHour
    /\ zone \in Locations
    /\ usage = [l \in Locations |-> EmptyMap]
    /\ pc = "octopus"
    /\ readings = <<>>
    /\ data = <<>>
    /\ day = start
    /\ page = 1
    /\ lastPage = 1
    /\ delivered = {}
    /\ outOfOrder = FALSE
    /\ duplicated = FALSE
    /\ RunIdle

SpecKeyed == KeyedInit /\ [][KeyedNext]_vars

\* the file an earlier run left under the output name: a header and one record
OldFile == FileOf(<<UsageRow(0)>>)

\* the stores Run may hold when it reaches writeCSV: none to three rows of the
\* first half-hours of the window, with or without a meter reading
WriteStores ==
    LET keys == {WindowBase, WindowBase + HalfHour, WindowBase + 2 * HalfHour}
        rows == UNION {{UsageRow(k), [UsageRow(k) EXCEPT !.OCTO_ImportKWh = Some(ValueUnit)]} : k \in keys}
    IN  UNION {{u \in [held -> rows] : \A k \in held : u[k].Timestamp = k} : held \in SUBSET keys}

\* Run has collected its rows and is about to resolve the prices and call
\* writeCSV; the output file exists or not
WriteInit ==
    /\ RateIdle
    /\ CostIdle
    /\ start = WindowBase
    /\ end = start + 4 * HalfHour
    /\ zone = "Local"
    /\ usage \in WriteStores
    /\ pc = "resolve"
    /\ readings = <<>>
    /\ GivIdle
    /\ feed = <<>>
    /\ snapshots = <<>>
    /\ calls = <<>>
    /\ importTariffs \in {<<>>} \cup RunTariffPages
    /\ exportTariffs = <<>>
    /\ csv = <<>>
    /\ file \in {None, OldFile}

SpecWrite == WriteInit /\ [][ResolveAndWrite]_vars

----------------------------------------------------------------------------
(* Claims about findRateForTime *)

\* the match rule as the specification words it: left-closed, right-open
InRange(t, iv) ==
    /\ (iv.ValidFrom = None \/ t >= Val(iv.ValidFrom))
    /\ (iv.ValidTo = None \/ t < Val(iv.ValidTo))

Matching == {k \in 1..Len(intervals) : InRange(qt, intervals[k])}

FirstMatching == CHOOSE k \in Matching : \A j \in Matching : k <= j

\* C2: findRateForTime treats an interval as matching t exactly when
\* (ValidFrom unset or t >= ValidFrom) and (ValidTo unset or t < ValidTo):
\* a rate is returned only for an interval in range, an interval in range
\* always yields a rate, and a lone interval with a nonzero rate is returned
\* if and only if t is in its range.
C2_MatchRule ==
    ratePc = "done" =>
        /\ rate # 0 => \E k \in Matching : rate = intervals[k].Rate
        /\ Matching # {} => \E k \in Matching : rate = intervals[k].Rate
        /\ (Len(intervals) = 1 /\ intervals[1].Rate # 0) =>
              (rate = intervals[1].Rate <=> InRange(qt, intervals[1]))

\* C2 witness: the call has returned the rate of an interval whose ValidFrom
\* is t itself, past an interval whose ValidTo is t
C2_Witness ==
    /\ ratePc = "done"
    /\ Len(intervals) = 2
    /\ intervals[1].ValidTo = Some(qt)
    /\ intervals[1].ValidFrom = None
    /\ intervals[1].Rate = 75
    /\ intervals[2].ValidFrom = Some(qt)
    /\ intervals[2].Rate = 105
    /\ rate = 105

\* C3: when no interval matches t, the result is distinguishable from a
\* matched rate of 0: it is never the number zero.
C3_NoMatchIsNotZero ==
    (ratePc = "done" /\ Matching = {}) => rate # 0

\* C4: for any list (unsorted, overlapping) and any t matched by at least
\* one interval, the result is the rate of the matching interval with the
\* smallest index.
C4_FirstMatchWins ==
    (ratePc = "done" /\ Matching # {}) => rate = intervals[FirstMatching].Rate

\* C4 witness: two overlapping intervals with different rates both match t
\* and the call has returned the first one's rate
C4_Witness ==
    /\ ratePc = "done"
    /\ Len(intervals) = 2
    /\ Matching = {1, 2}
    /\ intervals[1].Rate = 105
    /\ intervals[2].Rate = 75
    /\ rate = 105

----------------------------------------------------------------------------
(* Claims about PopulateGeoData, keyed by group start *)

\* every group starts on a quarter hour
GeoQuarterAligned == \A i \in 1..Len(readings) : readings[i].StartTimestamp % GeoStep = 0

\* the half-hour buckets t in [trunc30(start), end)
WindowBuckets == {t \in Trunc30(start)..(end - 1) : t % HalfHour = 0}

GroupsIn(t) == {i \in 1..Len(readings) : readings[i].StartTimestamp \in t..(t + HalfHour - 1)}

RECURSIVE channelOfGroup(_, _, _, _)
channelOfGroup(rs, type, field, j) ==
    IF j = 0 THEN 0
    ELSE channelOfGroup(rs, type, field, j - 1)
         + (IF rs[j].EnergyType = type THEN rs[j][field] ELSE 0)

\* the sum of a field over the readings of a channel whose group starts in [t, t + 30min)
RECURSIVE channelTotal(_, _, _, _)
channelTotal(t, type, field, n) ==
    IF n = 0 THEN 0
    ELSE channelTotal(t, type, field, n - 1)
         + (IF n \in GroupsIn(t)
            THEN channelOfGroup(readings[n].Readings, type, field, Len(readings[n].Readings))
            ELSE 0)

BucketHoldsSums(t) ==
    /\ Has(usage, t)
    /\ usage[t].GEO_ImportWh = Some(channelTotal(t, "IMPORT", "EnergyWattHours", Len(readings)))
    /\ usage[t].GEO_ImportMilliPenceCost = Some(channelTotal(t, "IMPORT", "MilliPenceCost", Len(readings)))
    /\ usage[t].GEO_ImportGasWh = Some(channelTotal(t, "GAS_ENERGY", "EnergyWattHours", Len(readings)))
    /\ usage[t].GEO_ImportGasMilliPenceCost = Some(channelTotal(t, "GAS_ENERGY", "MilliPenceCost", Len(readings)))

\* C1: with 15-minute epochs aligned to quarter hours, every half-hour
\* bucket of the window that holds a reading gets, per channel, energy and
\* milli-pence cost equal to the sum over the readings whose group start
\* lies in the bucket.
C1_BucketSums ==
    (pc = "done" /\ GeoQuarterAligned) =>
        \A t \in WindowBuckets : GroupsIn(t) # {} => BucketHoldsSums(t)

----------------------------------------------------------------------------
(* Claims about the maximum-per-bucket FetchHalfHourlyInverterData *)

SetMax(S) == CHOOSE x \in S : \A y \in S : y <= x

\* the buckets for which a sample has been delivered
Populated == {Trunc30(d.Time) : d \in delivered}

\* the greatest value a counter has been reported at within bucket b
MaxImport(b) == SetMax({d.Import : d \in {x \in delivered : Trunc30(x.Time) = b}})

MaxExport(b) == SetMax({d.Export : d \in {x \in delivered : Trunc30(x.Time) = b}})

\* the instants the walk visits: start, start + 30min, ... before end
Walked == {t \in start..(end - 1) : (t - start) % HalfHour = 0}

\* the walked buckets before t that hold a sample
EarlierPopulated(t) == {p \in Walked \cap Populated : p < t}

\* C5: whatever the order and the repetitions in which the samples were
\* delivered, the maximum recorded for a bucket is the greatest import and the
\* greatest export among the samples delivered for it: a function of the set
\* of samples alone.
C5_MaxOfDeliveredSet ==
    /\ pc = "giv" =>
          \A b \in Populated :
              /\ Has(data, b)
              /\ data[b].CumulativeImportInverter = MaxImport(b)
              /\ data[b].CumulativeExportInverter = MaxExport(b)
    /\ pc = "done" =>
          \A b \in Populated :
              /\ Has(usage, b)
              /\ usage[b].CumulativeImportInverter = Some(MaxImport(b))
              /\ usage[b].CumulativeExportInverter = Some(MaxExport(b))

\* C5 witness: the call has ended after a sample arrived below the recorded
\* maximum of its bucket and a sample arrived twice
C5_Witness ==
    /\ pc = "done"
    /\ outOfOrder
    /\ duplicated
    /\ Populated # {}

C7_CarriedDeltaUnset ==
    pc = "done" =>
        \A t \in Walked \ Populated :
            EarlierPopulated(t) # {} =>
                LET p == SetMax(EarlierPopulated(t))
                IN  /\ Has(usage, t)
                    /\ usage[t].CumulativeImportInverter = Some(MaxImport(p))
                    /\ usage[t].CumulativeExportInverter = Some(MaxExport(p))
                    /\ usage[t].GE_ImportKWh = None
                    /\ usage[t].GE_ExportKWh = None

\* the samples delivered are non-negative and non-decreasing in sample time
MonotoneSamples ==
    /\ \A d \in delivered : d.Import >= 0 /\ d.Export >= 0
    /\ \A d \in delivered : \A e \in delivered :
          d.Time <= e.Time => (d.Import <= e.Import /\ d.Export <= e.Export)

\* C29: when the samples delivered are non-negative and non-decreasing in
\* sample time, every import and export delta the call has written is >= 0,
\* in whatever order and pages the samples came and whichever buckets hold
\* none.
C29_DeltasNonNegative ==
    (pc = "done" /\ MonotoneSamples) =>
        \A k \in DOMAIN usage :
            /\ usage[k].GE_ImportKWh # None => Val(usage[k].GE_ImportKWh) >= 0
            /\ usage[k].GE_ExportKWh # None => Val(usage[k].GE_ExportKWh) >= 0

\* C29 witness: non-decreasing samples in the buckets 01:00 and 02:00 and none
\* in 01:30, a sample delivered twice, and a positive import delta written
C29_Witness ==
    /\ pc = "done"
    /\ MonotoneSamples
    /\ duplicated
    /\ start = WindowBase
    /\ Populated \cap Walked = {WindowBase, WindowBase + 2 * HalfHour}
    /\ \E k \in DOMAIN usage :
          usage[k].GE_ImportKWh # None /\ Val(usage[k].GE_ImportKWh) > 0

----------------------------------------------------------------------------
(* Claims about the interpolated FetchHalfHourlyInverterData *)

\* the half-hour boundaries t of [trunc30(start), end)
Boundaries == {t \in Trunc30(start)..(end - 1) : t % HalfHour = 0}

\* the keys of the rows that hold a cumulative inverter value
InverterKeys == {k \in DOMAIN usage : usage[k].CumulativeImportInverter # None}

\* the samples delivered at the latest instant
LastSamples == {d \in delivered : \A e \in delivered : e.Time <= d.Time}

\* prev and next are neighbours in time around t: next is later than t, no
\* sample lies strictly between them, and prev is at or before t, or is the
\* earliest sample when every sample is later than t
Brackets(prev, next, t) ==
    /\ next.Time > t
    /\ prev.Time < next.Time
    /\ \A d \in delivered : ~(prev.Time < d.Time /\ d.Time < next.Time)
    /\ prev.Time <= t \/ \A d \in delivered : prev.Time <= d.Time

\* the value at t on the straight line through prev and next
OnLine(t, prevT, prev, nextT, next) ==
    prev + ((t - prevT) * (next - prev)) \div (nextT - prevT)

\* the cumulative values the row of boundary t is to hold
HoldsValueAt(row, t) ==
    IF \E d \in delivered : d.Time > t
    THEN \E prev \in delivered : \E next \in delivered :
            /\ Brackets(prev, next, t)
            /\ row.CumulativeImportInverter
                 = Some(OnLine(t, prev.Time, prev.Import, next.Time, next.Import))
            /\ row.CumulativeExportInverter
                 = Some(OnLine(t, prev.Time, prev.Export, next.Time, next.Export))
    ELSE \E l \in LastSamples :
            /\ row.CumulativeImportInverter = Some(l.Import)
            /\ row.CumulativeExportInverter = Some(l.Export)

\* C8: once the call has ended, the rows holding an inverter value are exactly
\* those keyed t - 30min for the boundaries t of [trunc30(start), end), and the
\* row of t holds the linear interpolation at t between the samples around t,
\* or the last sample's value when no sample is later than t.
C8_RowPerBoundary ==
    (pc = "done" /\ delivered # {}) =>
        /\ InverterKeys = {t - HalfHour : t \in Boundaries}
        /\ \A t \in Boundaries : HoldsValueAt(usage[t - HalfHour], t)

\* v lies between a and b
Between(v, a, b) == (a <= v /\ v <= b) \/ (b <= v /\ v <= a)

\* C22: once the call has ended, at every boundary t where the interpolation
\* formula was applied, the samples used are prev at or before t and next
\* after t, of different instants, and the row of t holds values between
\* theirs.
C22_SamplesBracketBoundary ==
    pc = "done" =>
        \A t \in Boundaries :
            LET i == findAfter(data, t, 2)
            IN  i # 0 =>
                  /\ ~After(data[i - 1].timestamp, t)
                  /\ Before(data[i - 1].timestamp, data[i].timestamp)
                  /\ Between(Val(usage[t - HalfHour].CumulativeImportInverter),
                             data[i - 1].cumulativeImport, data[i].cumulativeImport)
                  /\ Between(Val(usage[t - HalfHour].CumulativeExportInverter),
                             data[i - 1].cumulativeExport, data[i].cumulativeExport)

----------------------------------------------------------------------------
(* Claims about App.Run *)

\* the interval feed delivered nothing: no row holds an Octopus consumption
EmptyIntervalFeed == \A k \in DOMAIN usage : usage[k].OCTO_ImportKWh = None

\* the feeds of the end-to-end scenario, in a Run that completed
EndToEndScenario ==
    /\ pc = "done"
    /\ EmptyIntervalFeed
    /\ readings # <<>>
    /\ delivered # {}

\* the energy of a channel over the epoch groups that start at one of stamps
RECURSIVE energyAt(_, _, _)
energyAt(stamps, type, n) ==
    IF n = 0 THEN 0
    ELSE energyAt(stamps, type, n - 1)
         + (IF readings[n].StartTimestamp \in stamps
            THEN channelOfGroup(readings[n].Readings, type, "EnergyWattHours",
                                Len(readings[n].Readings))
            ELSE 0)

\* the epoch feed holds import or gas energy in the last half hour of the
\* two-hour window (groups starting at start + 90min or start + 105min)
EnergyInLastHalfHour ==
    LET stamps == {start + 3 * HalfHour, start + 3 * HalfHour + GeoStep}
    IN  \/ energyAt(stamps, "IMPORT", Len(readings)) # 0
        \/ energyAt(stamps, "GAS_ENERGY", Len(readings)) # 0

Rank(src) ==
    CASE src = "octopus"       -> 1
      [] src = "geo"           -> 2
      [] src = "giv"           -> 3
      [] src = "importTariffs" -> 4
      [] src = "exportTariffs" -> 5
      [] src = "resolve"       -> 6

\* the fields each phase writes
FieldsOf(src) ==
    CASE src = "octopus" -> {"OCTO_ImportKWh", "OCTO_ExportKWh"}
      [] src = "geo"     -> {"GEO_ImportWh", "GEO_ImportGasWh", "GEO_ImportMilliPenceCost",
                             "GEO_ImportGasMilliPenceCost"}
      [] src = "giv"     -> {"CumulativeImportInverter", "CumulativeExportInverter",
                             "GE_ImportKWh", "GE_ExportKWh"}
      [] src = "resolve" -> {"ImportPrice", "ExportPrice"}
      [] OTHER           -> {}

\* C10: in every execution of Run the steps come phase by phase, Octopus,
\* Geo, GivEnergy, then the tariffs and their resolution; a step whose response
\* announced a further page is followed by a step of the same source, so a
\* phase is left only when its source is drained; a step changes only the
\* store's fields of its own phase; a Run that completed went through every
\* phase.
C10_PhaseOrder ==
    /\ \A i \in 1..(Len(calls) - 1) :
          /\ Rank(calls[i].src) <= Rank(calls[i + 1].src)
          /\ calls[i].more => calls[i + 1].src = calls[i].src
    /\ \A i \in 1..Len(calls) : calls[i].wrote \subseteq FieldsOf(calls[i].src)
    /\ pc = "done" =>
          \A src \in {"octopus", "geo", "giv", "importTariffs", "exportTariffs", "resolve"} :
              callsTo(src, Len(calls)) >= 1

\* C10 witness: a completed Run in which Octopus, the inverter and both tariff
\* feeds took two pages, and a row holds fields of all four phases
C10_Witness ==
    /\ pc = "done"
    /\ callsTo("octopus", Len(calls)) = 2
    /\ callsTo("giv", Len(calls)) = 2
    /\ callsTo("importTariffs", Len(calls)) = 2
    /\ callsTo("exportTariffs", Len(calls)) = 2
    /\ \E k \in DOMAIN usage :
          /\ usage[k].OCTO_ImportKWh # None
          /\ usage[k].GEO_ImportWh # None
          /\ usage[k].CumulativeImportInverter # None
          /\ usage[k].ImportPrice = Some(105)

\* the tariff fields of a row, and the cost fields a row stores
PriceFields == {"ImportPrice", "ExportPrice"}

CostFields == {"GEO_ImportMilliPenceCost", "GEO_ImportGasMilliPenceCost"}

\* the positions of calls at which a price field of the store changed
PriceWrites == {i \in 1..Len(calls) : calls[i].wrote \cap PriceFields # {}}

\* the three energy sources have been asked, and drained, before position i
SourcesDoneBefore(i) ==
    \A src \in {"octopus", "geo", "giv"} :
        \E j \in 1..(i - 1) :
            /\ calls[j].src = src
            /\ ~calls[j].more
            /\ \A l \in (j + 1)..(i - 1) : calls[l].src # src

\* the prices of the rows: unset until Run resolves them, written in one
\* step of Run after the three sources, set in every row of a completed Run
PricesOnceAfterSources ==
    /\ \A i \in PriceWrites : calls[i].src = "resolve" /\ SourcesDoneBefore(i)
    /\ Cardinality(PriceWrites) <= 1
    /\ PriceWrites = {} =>
          \A k \in DOMAIN usage : usage[k].ImportPrice = None /\ usage[k].ExportPrice = None
    /\ pc = "done" =>
          /\ Cardinality(PriceWrites) = 1
          /\ \A k \in DOMAIN usage : usage[k].ImportPrice # None /\ usage[k].ExportPrice # None

\* C11 as stated: the prices are written once, by Run, after the three
\* source phases, and no source reconciler writes a tariff or a cost field.
C11_NoSourceWritesPriceOrCost ==
    /\ PricesOnceAfterSources
    /\ \A i \in 1..Len(calls) :
          calls[i].src \in {"octopus", "geo", "giv"} =>
              calls[i].wrote \cap (PriceFields \cup CostFields) = {}

\* C11 amended: the prices are written once, by Run, after the three source
\* phases; no source reconciler writes a price; the cost fields of a row are
\* written by the Geo reconciler, from its feed, and by no other source.
C11_PricesByRunCostsByGeo ==
    /\ PricesOnceAfterSources
    /\ \A i \in 1..Len(calls) :
          /\ calls[i].src \in {"octopus", "geo", "giv"} => calls[i].wrote \cap PriceFields = {}
          /\ calls[i].wrote \cap CostFields # {} => calls[i].src = "geo"

\* C11 witness: a completed Run in which Geo wrote a cost, and the resolution
\* gave one row the price of a matching interval and another row none
C11_Witness ==
    /\ pc = "done"
    /\ \E i \in 1..Len(calls) : calls[i].src = "geo" /\ calls[i].wrote \cap CostFields # {}
    /\ \E k \in DOMAIN usage : usage[k].ImportPrice = Some(105)
    /\ \E k \in DOMAIN usage : usage[k].ImportPrice = Some(0)
    /\ Cardinality(PriceWrites) = 1

\* the key of the store whose row has the smallest Timestamp
SmallestKeys ==
    {k \in DOMAIN usage : \A j \in DOMAIN usage : ~Before(usage[j].Timestamp, usage[k].Timestamp)}

\* how many records of the output are the row r
TimesEmitted(r) == Cardinality({i \in 1..Len(csv) : csv[i] = r})

RequestSources == {"octopus", "geo", "giv", "importTariffs", "exportTariffs"}

\* C13: a failed request of any source ends Run with an error at once: it is
\* the last request issued (no retry, no later phase), nothing of it reaches
\* the store, no price is resolved and no output is written.
C13_FailFast ==
    \A i \in 1..Len(calls) :
        calls[i].failed =>
            /\ calls[i].src \in RequestSources
            /\ i = Len(calls)
            /\ pc = "error"
            /\ calls[i].wrote = {}
            /\ \A j \in 1..Len(calls) : calls[j].src # "resolve"
            /\ \A k \in DOMAIN usage : usage[k].ImportPrice = None /\ usage[k].ExportPrice = None
            /\ csv = <<>>

\* C13 witness: the second page of the inverter data fails after Octopus, Geo
\* and the first page have filled rows of the store
C13_Witness ==
    /\ Len(calls) >= 4
    /\ calls[Len(calls)].failed
    /\ calls[Len(calls)].src = "giv"
    /\ calls[Len(calls) - 1].src = "giv"
    /\ calls[Len(calls) - 1].more
    /\ \E k \in DOMAIN usage : usage[k].OCTO_ImportKWh # None
    /\ \E k \in DOMAIN usage : usage[k].GEO_ImportWh # None
    /\ pc = "error"
    /\ csv = <<>>

\* the keys of the rows that hold a cumulative snapshot and no delta
SnapshotWithoutDelta ==
    {k \in DOMAIN usage :
        /\ usage[k].CumulativeImportInverter # None
        /\ usage[k].CumulativeExportInverter # None
        /\ usage[k].GE_ImportKWh = None
        /\ usage[k].GE_ExportKWh = None}

\* row r holds the deltas of its cumulative values against those of the row
\* half an hour before
HoldsDeltas(r) ==
    LET before == usage[r.Timestamp - HalfHour]
        finite(x, y) == Val(x) \notin NonFinite /\ Val(y) \notin NonFinite
    IN  /\ Has(usage, r.Timestamp - HalfHour)
        /\ before.CumulativeImportInverter # None
        /\ before.CumulativeExportInverter # None
        /\ r.GE_ImportKWh # None
        /\ r.GE_ExportKWh # None
        /\ finite(r.CumulativeImportInverter, before.CumulativeImportInverter)
              => Val(r.GE_ImportKWh) = Val(r.CumulativeImportInverter)
                                       - Val(before.CumulativeImportInverter)
        /\ finite(r.CumulativeExportInverter, before.CumulativeExportInverter)
              => Val(r.GE_ExportKWh) = Val(r.CumulativeExportInverter)
                                       - Val(before.CumulativeExportInverter)

\* C27: in a Run that completed, exactly one row of the store holds a
\* cumulative snapshot without deltas, the first bucket trunc30(start) - 30min,
\* and it is the row writeCSV dropped; every emitted row that holds a
\* cumulative snapshot holds the import and export deltas against the snapshot
\* of half an hour before.
C27_DroppedRowIsTheOneWithoutDelta ==
    pc = "done" =>
        /\ SnapshotWithoutDelta = {Trunc30(start) - HalfHour}
        /\ {usage[k] : k \in DOMAIN usage} \ {csv[i] : i \in 1..Len(csv)}
              = {usage[Trunc30(start) - HalfHour]}
        /\ \A i \in 1..Len(csv) :
              csv[i].CumulativeImportInverter # None => HoldsDeltas(csv[i])

\* C27 witness: a completed Run whose file holds a row with an Octopus
\* consumption and a Geo energy, and a row whose import delta is not zero
C27_Witness ==
    /\ pc = "done"
    /\ \E i \in 1..Len(csv) :
          /\ csv[i].OCTO_ImportKWh # None
          /\ csv[i].GEO_ImportWh # None
          /\ csv[i].CumulativeImportInverter # None
    /\ \E i \in 1..Len(csv) :
          /\ csv[i].GE_ImportKWh # None
          /\ Val(csv[i].GE_ImportKWh) \notin NonFinite \cup {0}

----------------------------------------------------------------------------
(* Claims about the rows the reconcilers leave in the store *)

\* C17: after the maximum-per-bucket FetchHalfHourlyInverterData every row of
\* the store, carried-forward rows included, has the Timestamp of the key it
\* is stored under, so no two rows have the same Timestamp.
C17_TimestampIsKey ==
    pc = "done" =>
        /\ \A k \in DOMAIN usage : usage[k].Timestamp = k
        /\ \A j \in DOMAIN usage : \A k \in DOMAIN usage :
              j # k => usage[j].Timestamp # usage[k].Timestamp

\* the groups starting in bucket t that hold a reading of a metered channel
MeteredGroupsIn(t) ==
    {i \in GroupsIn(t) : \E j \in 1..Len(readings[i].Readings) :
        readings[i].Readings[j].EnergyType \in {"IMPORT", "GAS_ENERGY"}}

GeoFieldsUnset(t) ==
    ~Has(usage, t) \/ (/\ usage[t].GEO_ImportWh = None
                       /\ usage[t].GEO_ImportGasWh = None
                       /\ usage[t].GEO_ImportMilliPenceCost = None
                       /\ usage[t].GEO_ImportGasMilliPenceCost = None)

\* C19: after the start-keyed PopulateGeoData, with epochs on the quarter
\* hours, a bucket of the window has its GEO fields unset exactly when no
\* reading falls in it, so a bucket whose readings all have energy 0 has
\* them set.
C19_UnsetIffNoReading ==
    (pc = "done" /\ GeoQuarterAligned) =>
        \A t \in WindowBuckets : GeoFieldsUnset(t) <=> MeteredGroupsIn(t) = {}

\* C20: when the feed delivered no sample at all, the interpolated
\* FetchHalfHourlyInverterData leaves every row of the store without a
\* cumulative inverter value and without an inverter delta.
C20_EmptyFeedWritesNothing ==
    (pc = "done" /\ data = <<>>) =>
        \A k \in DOMAIN usage :
            /\ usage[k].CumulativeImportInverter = None
            /\ usage[k].CumulativeExportInverter = None
            /\ usage[k].GE_ImportKWh = None
            /\ usage[k].GE_ExportKWh = None

----------------------------------------------------------------------------
(* Claims about the keys of the store *)

\* the keys of the store, each an instant with its Location
StoreKeys ==
    {k \in Locations \X UNION {DOMAIN usage[l] : l \in Locations} : k[2] \in DOMAIN usage[k[1]]}

\* C21: after the three source phases every key of the store is an instant
\* on a half-hour boundary and no two keys are of the same half hour, whether
\* the requested start is aligned or not.
C21_OneRowPerHalfHour ==
    pc = "done" =>
        /\ \A k \in StoreKeys : k[2] % HalfHour = 0
        /\ \A j \in StoreKeys : \A k \in StoreKeys :
              Trunc30(j[2]) = Trunc30(k[2]) => j = k

\* the readings of bucket t hold energy on a channel
EnergyIn(t) ==
    \/ channelTotal(t, "IMPORT", "EnergyWattHours", Len(readings)) # 0
    \/ channelTotal(t, "GAS_ENERGY", "EnergyWattHours", Len(readings)) # 0

\* C26: with epochs on the 5-minute grid, after the start-keyed
\* PopulateGeoData every bucket of the window whose epochs hold energy has,
\* per channel, energy and cost equal to the sum over all the epochs that
\* start in that half hour.
C26_SumsOnFiveMinuteGrid ==
    pc = "done" => \A t \in WindowBuckets : EnergyIn(t) => BucketHoldsSums(t)

----------------------------------------------------------------------------
(* Claims about the requests of the maximum-per-bucket reconciler *)

\* a request was answered in this step
Answered == Len(calls') > Len(calls) /\ ~calls'[Len(calls')].failed

\* C28: over a range of several days every request asks for a page of the
\* day, from 1 to last_page; after page p < last_page comes page p + 1 of the
\* same day, after the last page of a day comes page 1 of the next day, and
\* after the last page of the last day the fetch ends.
C28_PagesOfEachDayInOrder ==
    [][Answered =>
          /\ page \in 1..lastPage
          /\ page < lastPage => (day' = day /\ page' = page + 1 /\ pc' = "giv")
          /\ (page = lastPage /\ Before(day + Day, end))
                => (day' = day + Day /\ page' = 1 /\ pc' = "giv")
          /\ (page = lastPage /\ ~Before(day + Day, end)) => pc' = "done"]_vars

----------------------------------------------------------------------------
(* Claims about the cumulative PopulateGeoData *)

\* PopulateGeoData has returned: the store it left is snapshots[1]
GeoReturned == Len(snapshots) >= 1 /\ readings # <<>>

\* the three consecutive 15-minute IMPORT epochs from the start of the window
ThreeEpochsFromStart ==
    /\ Len(readings) = 3
    /\ \A g \in 1..3 :
          /\ readings[g].StartTimestamp = start + (g - 1) * GeoStep
          /\ readings[g].Readings[1].EnergyType = "IMPORT"
          /\ readings[g].Readings[1].Duration = GeoStep
    /\ readings[1].Readings[1].EnergyWattHours = 1470
    /\ readings[2].Readings[1].EnergyWattHours = 1541
    /\ readings[3].Readings[1].EnergyWattHours = 1358

\* C23: three consecutive 15-minute IMPORT epochs from the start of the
\* window, of 1470, 1541 and 1358 Wh, leave 3011 in the bucket of start and
\* 1358 in the bucket of start + 30min.
C23_EpochsInTheirBucket ==
    (GeoReturned /\ ThreeEpochsFromStart) =>
        /\ snapshots[1][start].GEO_ImportWh = 1470 + 1541
        /\ snapshots[1][start + HalfHour].GEO_ImportWh = 1358

\* the cumulative maps step 1 built from the payload
CumulativeMaps == accumulateReadings(CumulativeEmpty, readings, 1, start, end)

\* the instants a cumulative snapshot is stored at
SnapshotInstants ==
    DOMAIN CumulativeMaps.cumulativeEnergy \cup DOMAIN CumulativeMaps.cumulativeGas

\* C24: a bucket of the window in which no cumulative snapshot falls gets no
\* row from PopulateGeoData: a row of such a bucket is one GetData created.
C24_NoRowWithoutSnapshot ==
    GeoReturned =>
        \A t \in DOMAIN snapshots[1] :
            SnapshotInstants \cap (t..(t + HalfHour - 1)) = {}
                => snapshots[1][t].OCTO_ImportKWh # 0

\* the readings of the payload, each with the start of its group
ReadingsOfPayload ==
    UNION {{<<readings[g].StartTimestamp, readings[g].Readings[i]>> :
              i \in 1..Len(readings[g].Readings)} : g \in 1..Len(readings)}

\* C25: PopulateGeoData discards a reading, leaving the cumulative maps and
\* the running totals as they were, exactly when the end of its epoch, group
\* start plus duration, lies outside [start, end].
C25_DiscardIffEndOutside ==
    GeoReturned =>
        \A r \in ReadingsOfPayload :
            (accumulateReading(CumulativeEmpty, r[1], r[2], start, end) = CumulativeEmpty)
                <=> (Before(r[1] + r[2].Duration, start) \/ After(r[1] + r[2].Duration, end))

----------------------------------------------------------------------------
(* Claims about writeCSV *)

\* C30: writeCSV called with fewer than two rows returns an error and leaves
\* the output file as it was, neither created nor truncated and without a
\* header written; called with two or more rows and a file it could create,
\* it drops the first row within the slice and writes every other row
C30_TooFewRowsNoEffect ==
    [][pc = "resolve" =>
          IF Cardinality(DOMAIN usage) < 2
          THEN pc' = "error" /\ file' = file /\ csv' = csv
          ELSE pc' = "done" =>
                  /\ Len(csv') = Cardinality(DOMAIN usage) - 1
                  /\ file' = Some([header |-> TRUE, records |-> csv'])]_vars

\* C30 witness: writeCSV was called with one row while a file of an earlier
\* run existed, returned its error and the file still holds the old record
C30_Witness ==
    /\ pc = "error"
    /\ calls # <<>>
    /\ Cardinality(DOMAIN usage) = 1
    /\ file = OldFile

(* Claims about computeCost *)

\* C14: computeCost returns "NaN" exactly when the energy or the price is
\* unset; two set operands, zero included, give the text of a number.
C14_NaNIffUnset ==
    evals >= 1 =>
        /\ (costText = NaNText) <=> (energy = None \/ price = None)
        /\ (energy # None /\ price # None) => costText.text = "%.2f"
        /\ (energy = None \/ price = None) => costText.text = "NaN"

\* C14 witness: the energy is unset and the price is zero: the cost is "NaN",
\* not the 0.00 that a zero energy gives
C14_Witness ==
    /\ evals >= 1
    /\ energy = None
    /\ price = Some(Float(fdiv(0, CostScale)))
    /\ costText = NaNText
    /\ computeCost(Some(Float(FloatZero)), price) = NumberText(FALSE, 0)

\* the energies of the bounds, in ten-thousandths of a kWh
AllEnergyDecimals == EnergyDecimals \cup {(CostScale \div WhPerKWh) * w : w \in EnergyWh}

\* C15: for operands of at most 4 decimals, E and P ten-thousandths, the
\* scaled cost is (E * P) div 10000, truncated toward zero; the cost of 1.0
\* kWh at 10.5 is "10.50" at every evaluation.
C15_ScaledCostExact ==
    evals >= 1 =>
        \A kE \in AllEnergyDecimals : \A kP \in PriceDecimals :
            (energy = Some(Float(fdiv(kE, CostScale))) /\ price = Some(Float(fdiv(kP, CostScale)))) =>
                /\ costInt(Val(energy), Val(price)) = quoTrunc(kE * kP, CostScale)
                /\ (kE = CostScale /\ kP = 105000) => costText = NumberText(FALSE, 1050)

----------------------------------------------------------------------------
(* Claims about FetchHalfHourlyInverterData on the shared store *)

\* the fields the inverter reconciler computes
InverterFields ==
    {"CumulativeImportInverter", "CumulativeExportInverter", "GE_ImportKWh", "GE_ExportKWh"}

\* the fields of the rows of values that Octopus and Geo write
SourceFields ==
    {"OCTO_ImportKWh", "GEO_ImportWh", "GEO_ImportGasWh",
     "GEO_ImportMilliPenceCost", "GEO_ImportGasMilliPenceCost"}

\* C16: a second call with the same feed, range and store leaves the
\* cumulative values and the deltas of every row, carried-forward rows
\* included, as the first call left them.
C16_SecondCallChangesNothing ==
    pc = "done" =>
        /\ DOMAIN usage = DOMAIN snapshots[2]
        /\ \A k \in DOMAIN usage : \A f \in InverterFields : usage[k][f] = snapshots[2][k][f]

\* C18: from its entry on, the inverter reconciler leaves the OCTO and GEO
\* fields of every row as Octopus and Geo wrote them for that bucket, and a
\* row it creates has them empty.
C18_SourceFieldsUntouched ==
    (pc \in {"giv", "giv2", "done"} /\ snapshots # <<>>) =>
        \A k \in DOMAIN usage : \A f \in SourceFields :
            usage[k][f] = RowOfValuesAt(snapshots[1], k)[f]

\* C18 witness: after Octopus and Geo have filled rows, the reconciler has
\* created a row of its own and has passed a bucket of the window for which
\* it had no sample, after one for which it had
C18_Witness ==
    /\ pc = "done"
    /\ start = WindowBase
    /\ snapshots[1] # EmptyMap
    /\ usage[WindowBase].OCTO_ImportKWh = 2
    /\ usage[WindowBase].GEO_ImportWh = 1470
    /\ usage[WindowBase].CumulativeImportInverter > 0
    /\ usage[WindowBase + HalfHour].CumulativeImportInverter = 0
    /\ usage[WindowBase + HalfHour].GEO_ImportWh = 1541 + 1358
    /\ \E k \in DOMAIN usage : k \notin DOMAIN snapshots[1]

====
